---- MODULE Spec2Model ----
(***************************************************************************)
(* Model of the calendar production scripts: the ISO week calculator       *)
(* (week_calculator.py) and the ordinal photo assignment of the calendar   *)
(* generator (calendar_generator.py).                                      *)
(*                                                                         *)
(* A datetime.date is represented by its proleptic Gregorian ordinal (the  *)
(* value of date.toordinal()); date +/- timedelta is integer arithmetic on *)
(* ordinals, and date ordering is integer ordering.  The conversions       *)
(* between (year, month, day) and ordinals follow the algorithms of the    *)
(* standard library's datetime module.                                     *)
(***************************************************************************)
EXTENDS Integers, Sequences, FiniteSets, TLC

(* manifest_file is photos/photo_information.txt as it is on disk and        *)
(* photo_files the set of photo files that exist below photos/.              *)
(* output_files is the set of files that exist below output/, pc the         *)
(* position of a running build_month ("none" when no build runs), and        *)
(* written the history of the files the running build has written so far.    *)
(* projection is the SimpleWorldProjection of the world map generator, None *)
(* where no generator has been constructed.                                  *)
VARIABLES op, args, ret, manifest_file, photo_files, _photo_info,
          output_files, pc, written, projection

vars == <<op, args, ret, manifest_file, photo_files, _photo_info,
          output_files, pc, written, projection>>

----------------------------------------------------------------------------
(* Bounds of the model *)

\* first calendar year whose dates and months are explored
FirstYear == 2024

\* number of consecutive calendar years explored
NumYears == 8

Years == FirstYear .. (FirstYear + NumYears - 1)

\* the calendar year of the photo builds explored
PhotoYear == 2026

\* the photo builds cover the months 1..NumPhotoMonths of PhotoYear
NumPhotoMonths == 2

PhotoMonths == 1..NumPhotoMonths

\* the primary month of an explored manifest is absent, or listed with up to
\* MaxShort lines fewer than the month has days, or with one line more
MaxShort == 3

----------------------------------------------------------------------------
(* datetime.date, as used by the scripts *)

\* Python's None
None == [none |-> TRUE]

\* calendar.isleap / datetime._is_leap
isleap(year) == year % 4 = 0 /\ (year % 100 # 0 \/ year % 400 = 0)

_DAYS_IN_MONTH == <<31, 28, 31, 30, 31, 30, 31, 31, 30, 31, 30, 31>>

\* datetime._days_in_month (calendar.monthrange(year, month)[1])
_days_in_month(year, month) ==
    IF month = 2 /\ isleap(year) THEN 29 ELSE _DAYS_IN_MONTH[month]

\* datetime._days_before_year: days before January 1st of year
_days_before_year(year) ==
    LET y == year - 1
    IN  y * 365 + (y \div 4) - (y \div 100) + (y \div 400)

RECURSIVE _days_before_month(_, _)
\* datetime._days_before_month: days in year preceding the first day of month
_days_before_month(year, month) ==
    IF month = 1 THEN 0
    ELSE _days_before_month(year, month - 1) + _days_in_month(year, month - 1)

\* whether datetime.date(year, month, day) constructs (no ValueError)
ValidDate(year, month, day) ==
    /\ year \in 1..9999
    /\ month \in 1..12
    /\ day \in 1.._days_in_month(year, month)

\* datetime.date(year, month, day), as an ordinal
_ymd2ord(year, month, day) ==
    _days_before_year(year) + _days_before_month(year, month) + day

\* datetime._ord2ymd, the last lines: the month is estimated from the day n
\* of the year and stepped back by one when the estimate is too high
MonthAndDay(year, leapyear, n, month) ==
    LET preceding == _days_before_month(1, month)
                     + (IF month > 2 /\ leapyear THEN 1 ELSE 0)
    IN  IF preceding > n
        THEN [year |-> year, month |-> month - 1,
              day |-> n - (preceding
                           - (IF month - 1 = 2 /\ leapyear THEN 29
                              ELSE _DAYS_IN_MONTH[month - 1])) + 1]
        ELSE [year |-> year, month |-> month, day |-> n - preceding + 1]

\* datetime._ord2ymd, from the 400-, 100-, 4- and 1-year cycle counts on
YearMonthDay(n400, n100, n4, n1, n) ==
    IF n1 = 4 \/ n100 = 4
    THEN [year |-> n400 * 400 + n100 * 100 + n4 * 4 + n1,
          month |-> 12, day |-> 31]
    ELSE MonthAndDay(n400 * 400 + 1 + n100 * 100 + n4 * 4 + n1,
                     n1 = 3 /\ (n4 # 24 \/ n100 = 3), n, (n + 50) \div 32)

\* datetime._ord2ymd: the (year, month, day) of an ordinal
Ord2YmdOf(ordinal) ==
    LET n0   == ordinal - 1
        r400 == n0 % 146097
        r100 == r400 % 36524
        r4   == r100 % 1461
    IN  YearMonthDay(n0 \div 146097, r400 \div 36524, r100 \div 1461,
                     r4 \div 365, r4 % 365)

\* the ordinals of the explored years with one year before and after them
Ordinals ==
    _ymd2ord(FirstYear - 1, 1, 1) .. _ymd2ord(FirstYear + NumYears, 12, 31)

\* Ord2YmdOf tabulated over the ordinals the model meets
Ord2YmdTable == [ordinal \in Ordinals |-> Ord2YmdOf(ordinal)]

_ord2ymd(ordinal) == Ord2YmdTable[ordinal]

\* date.year, date.month, date.day
YearOf(date)  == _ord2ymd(date).year
MonthOf(date) == _ord2ymd(date).month
DayOf(date)   == _ord2ymd(date).day

\* date.weekday(): Monday = 0 ... Sunday = 6
weekday(date) == (date + 6) % 7

\* datetime._isoweek1monday: ordinal of the Monday starting ISO week 1 of year
_isoweek1monday(year) ==
    LET firstday     == _ymd2ord(year, 1, 1)
        firstweekday == (firstday + 6) % 7
        week1monday  == firstday - firstweekday
    IN  IF firstweekday > 3 THEN week1monday + 7 ELSE week1monday

\* date.isocalendar() of the date today whose calendar year is year
IsoCalendarIn(year, today) ==
    LET week1monday == _isoweek1monday(year)
        week        == (today - week1monday) \div 7
        day         == (today - week1monday) % 7
    IN  IF week < 0
        THEN LET w0 == _isoweek1monday(year - 1)
             IN  <<year - 1, ((today - w0) \div 7) + 1, ((today - w0) % 7) + 1>>
        ELSE IF week >= 52 /\ today >= _isoweek1monday(year + 1)
             THEN <<year + 1, 1, day + 1>>
             ELSE <<year, week + 1, day + 1>>

\* date.isocalendar(): <<ISO year, ISO week, ISO weekday>>
isocalendar(date) == IsoCalendarIn(YearOf(date), date)

\* every date of the explored years
Dates == { _ymd2ord(y, 1, 1) + i : y \in Years, i \in 0..365 } \cap
         (_ymd2ord(FirstYear, 1, 1) .. _ymd2ord(FirstYear + NumYears - 1, 12, 31))

----------------------------------------------------------------------------
(* week_calculator.py: WeekCalculator *)

\* variant: the calendar year of the date is paired with the ISO week
get_iso_week_calendar_year(date) ==
    <<YearOf(date), isocalendar(date)[2]>>

\* WeekCalculator.get_iso_week
get_iso_week(date) == SubSeq(isocalendar(date), 1, 2)

\* variant: week 1 is taken to be the week of January 1st
get_week_start_date_jan1(year, week) ==
    LET jan1         == _ymd2ord(year, 1, 1)
        week1_monday == jan1 - weekday(jan1)
    IN  week1_monday + 7 * (week - 1)

\* variant: the weeks are counted from January 4th itself
get_week_start_date_from_jan4(year, week) ==
    LET jan4 == _ymd2ord(year, 1, 4)
    IN  jan4 + 7 * (week - 1)

\* WeekCalculator.get_week_start_date
get_week_start_date(year, week) ==
    LET jan4         == _ymd2ord(year, 1, 4)
        week1_monday == jan4 - weekday(jan4)
    IN  week1_monday + 7 * (week - 1)


\* get_month_weeks, lines 70-77: first and last day of the month
FirstDayOfMonth(year, month) == _ymd2ord(year, month, 1)

\* variant: the day is not stepped back from the first of the next month
LastDayOfMonth_no_step_back(year, month) ==
    IF month = 12
    THEN _ymd2ord(year + 1, 1, 1)
    ELSE _ymd2ord(year, month + 1, 1)

LastDayOfMonth(year, month) ==
    IF month = 12
    THEN _ymd2ord(year + 1, 1, 1) - 1
    ELSE _ymd2ord(year, month + 1, 1) - 1

\* variant: isoweekday() (Monday = 1) is used for days_since_monday
FirstWeekStart_isoweekday(first_day) ==
    LET days_since_monday == weekday(first_day) + 1
    IN  first_day - days_since_monday

\* get_month_weeks, lines 82-84: the Monday starting the week of first_day
FirstWeekStart(first_day) ==
    LET days_since_monday == weekday(first_day)
    IN  first_day - days_since_monday

\* variant: the last day of the month is counted as next month too
DayCell_next_from_last_day(date, first_day, last_day) ==
    [ date              |-> date,
      day               |-> DayOf(date),
      weekday           |-> weekday(date),
      in_current_month  |-> (first_day <= date /\ date <= last_day),
      is_previous_month |-> (date < first_day),
      is_next_month     |-> (date >= last_day) ]

\* get_month_weeks, lines 107-119: the dictionary of one day of a week
DayCell(date, first_day, last_day) ==
    [ date              |-> date,
      day               |-> DayOf(date),
      weekday           |-> weekday(date),
      in_current_month  |-> (first_day <= date /\ date <= last_day),
      is_previous_month |-> (date < first_day),
      is_next_month     |-> (date > last_day) ]

Max(a, b) == IF a >= b THEN a ELSE b
Min(a, b) == IF a <= b THEN a ELSE b

\* variant: the ISO week is read from the row's Monday and paired with the
\* calendar year of the grid
WeekInfo_grid_year(week_start, first_day, last_day) ==
    LET week_end      == week_start + 6
        iso           == get_iso_week(week_start)
        month_start   == Max(week_start, first_day)
        month_end     == Min(week_end, last_day)
        days_in_month == IF month_end >= month_start
                         THEN (month_end - month_start) + 1 ELSE 0
    IN  [ week_number      |-> iso[2],
          iso_year         |-> YearOf(first_day),
          week_start       |-> week_start,
          week_end         |-> week_end,
          days_in_month    |-> days_in_month,
          is_complete_week |-> (days_in_month = 7),
          dates            |-> [i \in 1..7 |->
                                  DayCell(week_start + (i - 1), first_day, last_day)] ]

\* variant: the loop over the days of the week stops one day short
WeekInfo_six_days(week_start, first_day, last_day) ==
    LET week_end      == week_start + 6
        iso           == get_iso_week(week_start + 3)
        month_start   == Max(week_start, first_day)
        month_end     == Min(week_end, last_day)
        days_in_month == IF month_end >= month_start
                         THEN (month_end - month_start) + 1 ELSE 0
    IN  [ week_number      |-> iso[2],
          iso_year         |-> iso[1],
          week_start       |-> week_start,
          week_end         |-> week_end,
          days_in_month    |-> days_in_month,
          is_complete_week |-> (days_in_month = 7),
          dates            |-> [i \in 1..6 |->
                                  DayCell(week_start + (i - 1), first_day, last_day)] ]

\* get_month_weeks, lines 87-119: the week_info of the week starting week_start
WeekInfo(week_start, first_day, last_day) ==
    LET week_end      == week_start + 6
        iso           == get_iso_week(week_start + 3)
        month_start   == Max(week_start, first_day)
        month_end     == Min(week_end, last_day)
        days_in_month == IF month_end >= month_start
                         THEN (month_end - month_start) + 1 ELSE 0
    IN  [ week_number      |-> iso[2],
          iso_year         |-> iso[1],
          week_start       |-> week_start,
          week_end         |-> week_end,
          days_in_month    |-> days_in_month,
          is_complete_week |-> (days_in_month = 7),
          dates            |-> [i \in 1..7 |->
                                  DayCell(week_start + (i - 1), first_day, last_day)] ]

RECURSIVE WeeksLoop(_, _, _)
\* get_month_weeks, lines 86-122: the while loop appending one week_info per week
WeeksLoop(week_start, first_day, last_day) ==
    IF week_start <= last_day
    THEN <<WeekInfo(week_start, first_day, last_day)>>
         \o WeeksLoop(week_start + 7, first_day, last_day)
    ELSE <<>>

\* WeekCalculator.get_month_weeks (month in 1..12)
get_month_weeks(year, month) ==
    LET first_day == FirstDayOfMonth(year, month)
        last_day  == LastDayOfMonth(year, month)
    IN  WeeksLoop(FirstWeekStart(first_day), first_day, last_day)

\* variant: floor division instead of ceiling division
RowsNeeded_floor(first_weekday, days_in_month) ==
    LET total_cells_needed == first_weekday + days_in_month
    IN  total_cells_needed \div 7

\* WeekCalculator.analyze_month_layout, lines 140-144: ceiling division
RowsNeeded(first_weekday, days_in_month) ==
    LET total_cells_needed == first_weekday + days_in_month
    IN  (total_cells_needed + 6) \div 7

\* WeekCalculator.analyze_month_layout (the integer fields of the layout)
analyze_month_layout(year, month) ==
    LET first_day     == FirstDayOfMonth(year, month)
        last_day      == LastDayOfMonth(year, month)
        days_in_month == DayOf(last_day)
        first_weekday == weekday(first_day)
        rows_needed   == RowsNeeded(first_weekday, days_in_month)
    IN  [ rows_needed   |-> rows_needed,
          first_weekday |-> first_weekday,
          days_in_month |-> days_in_month,
          has_overflow  |-> (rows_needed > 5) ]

\* variant: a month outside 1..12 yields a grid without weeks
generate_calendar_grid_empty(year, month) ==
    LET weeks == IF ValidDate(year, month, 1)
                 THEN get_month_weeks(year, month)
                 ELSE <<>>
    IN  [ year           |-> year,
          month          |-> month,
          previous_month |-> IF month = 1
                             THEN [month |-> 12, year |-> year - 1]
                             ELSE [month |-> month - 1, year |-> year],
          next_month     |-> IF month = 12
                             THEN [month |-> 1, year |-> year + 1]
                             ELSE [month |-> month + 1, year |-> year],
          weeks          |-> weeks,
          total_weeks    |-> Len(weeks),
          layout         |-> IF ValidDate(year, month, 1)
                             THEN analyze_month_layout(year, month)
                             ELSE None ]

\* WeekCalculator.generate_calendar_grid; date(year, month, 1) raises
\* ValueError for a month outside 1..12, before anything is built
generate_calendar_grid(year, month) ==
    IF ~ValidDate(year, month, 1)
    THEN [error |-> "ValueError"]
    ELSE LET weeks == get_month_weeks(year, month)
         IN  [ year           |-> year,
               month          |-> month,
               previous_month |-> IF month = 1
                                  THEN [month |-> 12, year |-> year - 1]
                                  ELSE [month |-> month - 1, year |-> year],
               next_month     |-> IF month = 12
                                  THEN [month |-> 1, year |-> year + 1]
                                  ELSE [month |-> month + 1, year |-> year],
               weeks          |-> weeks,
               total_weeks    |-> Len(weeks),
               layout         |-> analyze_month_layout(year, month) ]

\* a result that is an exception
IsError(r) == "error" \in DOMAIN r

----------------------------------------------------------------------------
(* calendar_generator.py: the photo manifest and the photo lookup *)

(* A string is modelled as the sequence of its symbols.  A month key is its  *)
(* sequence of decimal digits; a filename or an observation id is a string   *)
(* of one symbol; <<>> is the empty string.  A line of                       *)
(* photos/photo_information.txt is the sequence "parts" of its stripped,     *)
(* tab-separated fields.  A photo directory is a record (year, month,        *)
(* processed) for photos/YYYY/MM or photos/YYYY/MM-processed, and a file     *)
(* path is a record (dir, web, name) for dir/name.jpg or dir/web/name.jpg.   *)

RECURSIVE DecDigits(_)
\* the decimal digits of n, as f"{n}" prints them
DecDigits(n) ==
    IF n < 10 THEN <<n>> ELSE DecDigits(n \div 10) \o <<n % 10>>

\* f"{n:02d}"
Pad2(n) == IF n < 10 THEN <<0, n>> ELSE DecDigits(n)

\* f"{year}{month:02d}"
MonthKey(year, month) == DecDigits(year) \o Pad2(month)

\* f"{n:04d}"
Pad4(n) ==
    IF n < 10 THEN <<0, 0, 0, n>>
    ELSE IF n < 100 THEN <<0, 0>> \o DecDigits(n)
    ELSE IF n < 1000 THEN <<0>> \o DecDigits(n)
    ELSE DecDigits(n)

\* date.strftime('%Y-%m-%d'): the three fields between the hyphens
strftime_ymd(date) ==
    <<Pad4(YearOf(date)), Pad2(MonthOf(date)), Pad2(DayOf(date))>>

\* _load_photo_information, line 112: a line with a month key and a filename
HasFilename(parts) == Len(parts) >= 2 /\ parts[2] # <<>>

\* _load_photo_information, lines 110-118: the loop over the data lines
\* appends each line's filename to the list of the line's month key, so
\* every key met maps to the filenames of its lines in file order
LoadLines(lines) ==
    LET accepted == SelectSeq(lines, HasFilename)
        keys     == { accepted[i][1] : i \in 1..Len(accepted) }
        of(key)  == SelectSeq(accepted, LAMBDA parts : parts[1] = key)
    IN  [yyyymm \in keys |->
            LET listed == of(yyyymm)
            IN  [i \in 1..Len(listed) |-> listed[i][2]]]

\* CalendarGenerator._load_photo_information: {} when the file does not
\* exist, else the filenames per month key in file order, header skipped
_load_photo_information(file) ==
    IF ~file.exists THEN <<>>
    ELSE LoadLines(SubSeq(file.lines, 2, Len(file.lines)))

\* variant: a loaded manifest is consumed, each use dropping the first entry
\* of every month
LoadedPhotoInfo_consuming(cache, file) ==
    IF ~cache.set
    THEN [set |-> TRUE, value |-> _load_photo_information(file)]
    ELSE [set |-> TRUE,
          value |-> [key \in DOMAIN cache.value |->
                        IF cache.value[key] = <<>> THEN <<>>
                        ELSE Tail(cache.value[key])]]

\* variant: the manifest is read again at every lookup
LoadedPhotoInfo_reloading(cache, file) ==
    [set |-> TRUE, value |-> _load_photo_information(file)]

\* find_photo_for_date, lines 315-316: the manifest is loaded on first use
LoadedPhotoInfo(cache, file) ==
    IF ~cache.set
    THEN [set |-> TRUE, value |-> _load_photo_information(file)]
    ELSE cache

PhotoPath(photo_dir, filename) ==
    [dir |-> photo_dir, web |-> FALSE, name |-> filename]

WebPhotoPath(photo_dir, filename) ==
    [dir |-> photo_dir, web |-> TRUE, name |-> filename]

RECURSIVE SearchDirs(_, _, _, _, _)
\* find_photo_for_date, lines 330-348: the first directory holding the file
SearchDirs(photo_dirs, filename, files, use_absolute_paths, web_optimized) ==
    IF photo_dirs = <<>> THEN None
    ELSE LET photo_dir      == Head(photo_dirs)
             photo_path     == PhotoPath(photo_dir, filename)
             web_photo_path == WebPhotoPath(photo_dir, filename)
         IN  IF web_optimized /\ ~use_absolute_paths /\ web_photo_path \in files
             THEN [form |-> "relative", path |-> web_photo_path]
             ELSE IF photo_path \in files
             THEN IF use_absolute_paths
                  THEN [form |-> "absolute", path |-> photo_path]
                  ELSE [form |-> "relative", path |-> photo_path]
             ELSE SearchDirs(Tail(photo_dirs), filename, files,
                             use_absolute_paths, web_optimized)

\* variant: the day of the month is used as the index without conversion
PhotoIndex_one_based(day_of_month) == day_of_month

\* find_photo_for_date, line 324: the 0-based index of the day's entry
PhotoIndex(day_of_month) == day_of_month - 1

\* CalendarGenerator.find_photo_for_date, on the loaded manifest photo_info
find_photo_for_date(photo_info, files, target_date, photo_dirs, use_absolute_paths, web_optimized) ==
    LET month_key    == MonthKey(YearOf(target_date), MonthOf(target_date))
        day_of_month == DayOf(target_date)
    IN  IF month_key \in DOMAIN photo_info
        THEN LET photos_for_month == photo_info[month_key]
                 photo_index      == PhotoIndex(day_of_month)
             IN  IF photo_index < Len(photos_for_month)
                 THEN SearchDirs(photo_dirs, photos_for_month[photo_index + 1],
                                 files, use_absolute_paths, web_optimized)
                 ELSE None
        ELSE None

\* photos/YYYY/MM and photos/YYYY/MM-processed
PhotoDir(year, month)     == [year |-> year, month |-> month, processed |-> FALSE]
ProcessedDir(year, month) == [year |-> year, month |-> month, processed |-> TRUE]

\* generate_month_data, lines 604-608 and 623-626: the two directories of a month
DefaultPhotoDirs(year, month) ==
    <<PhotoDir(year, month), ProcessedDir(year, month)>>

\* generate_month_data, lines 615-627: the lookup of one cell, in the month's
\* own directories for a day of the month and in the overflow month's otherwise
CellImagePath(photo_info, files, day_info, year, month, photo_dirs, use_absolute_paths, web_optimized) ==
    LET current_month == MonthOf(day_info.date)
        current_year  == YearOf(day_info.date)
    IN  IF current_month = month /\ current_year = year
        THEN find_photo_for_date(photo_info, files, day_info.date, photo_dirs,
                                 use_absolute_paths, web_optimized)
        ELSE find_photo_for_date(photo_info, files, day_info.date,
                                 DefaultPhotoDirs(current_year, current_month),
                                 use_absolute_paths, web_optimized)

\* variant: a cell without a photo is reported missing whatever its month
IsMissing_any_month(day_info, image_path, year, month) ==
    image_path = None

\* generate_month_data, lines 629-631: whether a cell is reported missing
IsMissing(day_info, image_path, year, month) ==
    /\ MonthOf(day_info.date) = month
    /\ YearOf(day_info.date) = year
    /\ image_path = None

\* the cells of a list of weeks in the order the nested loops visit them
FlatCells(weeks) ==
    [n \in 1..(7 * Len(weeks)) |-> weeks[((n - 1) \div 7) + 1].dates[((n - 1) % 7) + 1]]

\* variant: the scan stops at the first cell reported missing
MissingFrom_first_only(cells, paths, year, month) ==
    LET visited == [n \in 1..Len(cells) |-> n]
        hit     == SelectSeq(visited,
                       LAMBDA n : IsMissing(cells[n], paths[n], year, month))
    IN  [i \in 1..(IF hit = <<>> THEN 0 ELSE 1) |->
            strftime_ymd(cells[hit[i]].date)]

\* generate_month_data, lines 611-631: missing_photos, the formatted dates
\* of the cells reported missing, in the order the loops visit the cells
MissingFrom(cells, paths, year, month) ==
    LET visited == [n \in 1..Len(cells) |-> n]
        hit     == SelectSeq(visited,
                       LAMBDA n : IsMissing(cells[n], paths[n], year, month))
    IN  [i \in 1..Len(hit) |-> strftime_ymd(cells[hit[i]].date)]

\* CalendarGenerator._load_location_from_readme: the outcome for the three
\* states of photos/YYYY/MM/README.md
LocationError(readme) ==
    IF readme = "missing" THEN [error |-> "FileNotFoundError", what |-> "location"]
    ELSE IF readme = "incomplete" THEN [error |-> "ValueError", what |-> "location"]
    ELSE None

\* generate_month_data, lines 592-662, once generate_calendar_grid has
\* returned or raised: the location, the lookups, the missing list, the
\* failure or the data
MonthDataOf(grid_data, photo_info, files, year, month, readme, photo_dirs, use_absolute_paths, web_optimized) ==
    IF IsError(grid_data) THEN grid_data
    ELSE IF LocationError(readme) # None THEN LocationError(readme)
    ELSE
    LET dirs  == IF photo_dirs = <<>> THEN DefaultPhotoDirs(year, month)
                 ELSE photo_dirs
        cells == FlatCells(grid_data.weeks)
        paths == [n \in 1..Len(cells) |->
                    CellImagePath(photo_info, files, cells[n], year, month,
                                  dirs, use_absolute_paths, web_optimized)]
        missing_photos == MissingFrom(cells, paths, year, month)
    IN  IF missing_photos # <<>>
        THEN [error |-> "FileNotFoundError",
              what |-> "missing photos",
              missing |-> missing_photos]
        ELSE [year |-> year, month |-> month,
              weeks |-> [i \in 1..Len(grid_data.weeks) |->
                 [week_number |-> grid_data.weeks[i].week_number,
                  iso_year |-> grid_data.weeks[i].iso_year,
                  dates |-> [j \in 1..7 |->
                     [cell |-> grid_data.weeks[i].dates[j],
                      image_path |-> paths[7 * (i - 1) + j]]]]],
              total_weeks |-> grid_data.total_weeks,
              layout |-> grid_data.layout]

\* CalendarGenerator.generate_month_data on the loaded manifest cache.value;
\* photo_dirs <<>> stands for an argument that is None or empty
generate_month_data(cache, files, year, month, readme, photo_dirs, use_absolute_paths, web_optimized) ==
    MonthDataOf(generate_calendar_grid(year, month), cache.value, files, year,
                month, readme, photo_dirs, use_absolute_paths, web_optimized)

\* whether generate_month_data reaches its first find_photo_for_date call:
\* the grid is built (the month is one of 1..12) and the location is loaded
ReachesLookup(year, month, readme) ==
    /\ ValidDate(year, month, 1)
    /\ LocationError(readme) = None

----------------------------------------------------------------------------
(* The session of calls on one WeekCalculator *)

\* no call is in progress: the caller holds no pending result
Idle == op = "idle"

Init ==
    /\ op = "idle"
    /\ args = <<>>
    /\ ret = None
    /\ manifest_file = [exists |-> FALSE]
    /\ photo_files = {}
    /\ _photo_info = [set |-> FALSE]
    /\ output_files = {}
    /\ pc = "none"
    /\ written = <<>>
    /\ projection = None

\* a call of get_iso_week(date)
GetIsoWeek ==
    \E date \in Dates :
        /\ Idle
        /\ op' = "get_iso_week"
        /\ args' = <<date>>
        /\ ret' = get_iso_week(date)
        /\ UNCHANGED projection
        /\ UNCHANGED <<manifest_file, photo_files, _photo_info>>
        /\ UNCHANGED <<output_files, pc, written>>

\* a call of get_week_start_date(year, week)
GetWeekStartDate ==
    \E year \in Years, week \in 1..53 :
        /\ Idle
        /\ op' = "get_week_start_date"
        /\ args' = <<year, week>>
        /\ ret' = get_week_start_date(year, week)
        /\ UNCHANGED projection
        /\ UNCHANGED <<manifest_file, photo_files, _photo_info>>
        /\ UNCHANGED <<output_files, pc, written>>

\* a call of generate_calendar_grid(year, month), month valid or not
GenerateCalendarGrid ==
    \E year \in Years, month \in 0..13 :
        /\ Idle
        /\ op' = "generate_calendar_grid"
        /\ args' = <<year, month>>
        /\ ret' = generate_calendar_grid(year, month)
        /\ UNCHANGED projection
        /\ UNCHANGED <<manifest_file, photo_files, _photo_info>>
        /\ UNCHANGED <<output_files, pc, written>>

\* the caller takes the result of the finished call; the session goes on
Return ==
    /\ ~Idle
    /\ pc \in {"none", "done"}
    /\ op' = "idle"
    /\ args' = <<>>
    /\ ret' = None
    /\ pc' = "none"
    /\ UNCHANGED projection
    /\ UNCHANGED <<manifest_file, photo_files, _photo_info>>
    /\ UNCHANGED <<output_files, written>>

Next ==
    \/ GetIsoWeek
    \/ GetWeekStartDate
    \/ GenerateCalendarGrid
    \/ Return

Spec == Init /\ [][Next]_vars

----------------------------------------------------------------------------
(* A failed call followed by a valid call on one WeekCalculator *)

\* the months outside 1..12 passed to the failing call
BadMonths == {-1, 0, 13, 14}

\* two calls of generate_calendar_grid in a row on the same WeekCalculator:
\* the first with a month outside 1..12, the second with a month of 1..12.
\* No method of WeekCalculator assigns a field after __init__, so the second
\* call runs on the calculator as constructed; ret holds the two results
GenerateCalendarGridAfterFailure ==
    \E bad_year \in Years, bad_month \in BadMonths, year \in Years, month \in 1..12 :
        /\ Idle
        /\ op' = "generate_calendar_grid, after a failed call"
        /\ args' = <<bad_year, bad_month, year, month>>
        /\ ret' = << generate_calendar_grid(bad_year, bad_month),
                     generate_calendar_grid(year, month) >>
        /\ UNCHANGED projection
        /\ UNCHANGED <<manifest_file, photo_files, _photo_info>>
        /\ UNCHANGED <<output_files, pc, written>>

NextAfterFailure ==
    \/ GenerateCalendarGrid
    \/ GenerateCalendarGridAfterFailure
    \/ Return

SpecAfterFailure == Init /\ [][NextAfterFailure]_vars

----------------------------------------------------------------------------
(* The session of calls on one CalendarGenerator, over a photo tree *)

\* the month before and the month after (year, month)
PrevMonth(year, month) ==
    IF month = 1 THEN <<year - 1, 12>> ELSE <<year, month - 1>>
NextMonth(year, month) ==
    IF month = 12 THEN <<year + 1, 1>> ELSE <<year, month + 1>>

\* the numbers of lines the primary month is listed with
EntryCounts(year, month) ==
    {0} \cup ((_days_in_month(year, month) - MaxShort) ..
              (_days_in_month(year, month) + 1))

\* the photo trees explored around a primary month
Envs == {"full", "alone", "web", "processed", "hole", "blank", "nofile"}

\* the month keys of the data lines of the manifest, in file order: the
\* previous month and the next month listed completely (not in "alone"),
\* the primary month with k lines
ManifestKeys(year, month, k, env) ==
    LET prev == PrevMonth(year, month)
        next == NextMonth(year, month)
        adj(ym) == IF env = "alone" THEN <<>>
                   ELSE [i \in 1.._days_in_month(ym[1], ym[2]) |-> ym]
    IN  adj(prev) \o [i \in 1..k |-> <<year, month>>] \o adj(next)

\* photos/photo_information.txt: the header line, then one line
\* (YYYYMM, filename, observation id) per photo, named by its line number; in
\* "blank" a line without a filename precedes the primary month's lines
ManifestOf(year, month, k, env) ==
    IF env = "nofile" THEN [exists |-> FALSE]
    ELSE LET keys  == ManifestKeys(year, month, k, env)
             line(i) == <<MonthKey(keys[i][1], keys[i][2]), <<i>>, <<i>>>>
             data  == [i \in 1..Len(keys) |-> line(i)]
             nprev == Len(SelectSeq(keys, LAMBDA ym : ym = PrevMonth(year, month)))
             blank == <<MonthKey(year, month), <<>>, <<0>>>>
         IN  [exists |-> TRUE,
              lines |-> <<<<<<"YYYYMM">>, <<"filename">>, <<"observation_id">>>>>>
                        \o (IF env = "blank"
                            THEN SubSeq(data, 1, nprev) \o <<blank>>
                                 \o SubSeq(data, nprev + 1, Len(data))
                            ELSE data)]

\* the photo files on disk: every listed photo in the directory of its month
\* (in "processed": in the -processed directory; in "web": with a web
\* thumbnail; in "hole": but for the first photo of the primary month)
DiskOf(year, month, k, env) ==
    IF env = "nofile" THEN {}
    ELSE LET keys == ManifestKeys(year, month, k, env)
             nprev == Len(SelectSeq(keys, LAMBDA ym : ym = PrevMonth(year, month)))
             kept == { i \in 1..Len(keys) : ~(env = "hole" /\ i = nprev + 1) }
             dir(i) == IF env = "processed"
                       THEN ProcessedDir(keys[i][1], keys[i][2])
                       ELSE PhotoDir(keys[i][1], keys[i][2])
         IN  { PhotoPath(dir(i), <<i>>) : i \in kept }
             \cup (IF env = "web"
                   THEN { WebPhotoPath(dir(i), <<i>>) : i \in kept } ELSE {})

InitPhoto ==
    \E month \in PhotoMonths, env \in Envs :
      \E k \in IF env = "nofile" THEN {0} ELSE EntryCounts(PhotoYear, month) :
        /\ op = "idle"
        /\ args = <<>>
        /\ ret = None
        /\ manifest_file = ManifestOf(PhotoYear, month, k, env)
        /\ photo_files = DiskOf(PhotoYear, month, k, env)
        /\ _photo_info = [set |-> FALSE]
        /\ output_files = {}
        /\ pc = "none"
        /\ written = <<>>
        /\ projection = None

\* the dates a photo is looked up for: the days of the photo months
PhotoDates ==
    _ymd2ord(PhotoYear, 1, 1) ..
        _ymd2ord(PhotoYear, NumPhotoMonths, _days_in_month(PhotoYear, NumPhotoMonths))

\* a call of find_photo_for_date(target_date, photo_dirs, ...), photo_dirs
\* being the directories of the date's month or the first of them alone
FindPhotoForDate ==
    \E cache \in {LoadedPhotoInfo(_photo_info, manifest_file)} :
        \E target_date \in PhotoDates, both \in BOOLEAN,
           use_absolute_paths \in BOOLEAN, web_optimized \in BOOLEAN :
            LET y == YearOf(target_date)
                m == MonthOf(target_date)
                photo_dirs == IF both THEN DefaultPhotoDirs(y, m)
                              ELSE <<PhotoDir(y, m)>>
            IN  /\ Idle
                /\ op' = "find_photo_for_date"
                /\ args' = <<target_date, photo_dirs, use_absolute_paths,
                             web_optimized>>
                /\ _photo_info' = cache
                /\ ret' = find_photo_for_date(cache.value, photo_files,
                              target_date, photo_dirs, use_absolute_paths,
                              web_optimized)
                /\ UNCHANGED projection
                /\ UNCHANGED <<manifest_file, photo_files>>
                /\ UNCHANGED <<output_files, pc, written>>

\* the states of a month's README.md that _load_location_from_readme tells apart
ReadmeStates == {"missing", "incomplete", "ok"}

\* a call of generate_month_data(year, month, None, photo_dirs, ...), photo_dirs
\* being None or the month's first directory
GenerateMonthData ==
    \E loaded \in {LoadedPhotoInfo(_photo_info, manifest_file)} :
        \E month \in PhotoMonths, readme \in ReadmeStates, given \in BOOLEAN,
           use_absolute_paths \in BOOLEAN, web_optimized \in BOOLEAN :
            LET photo_dirs == IF given THEN <<PhotoDir(PhotoYear, month)>>
                              ELSE <<>>
            IN  /\ Idle
                /\ op' = "generate_month_data"
                /\ args' = <<PhotoYear, month, readme, photo_dirs,
                             use_absolute_paths, web_optimized>>
                /\ _photo_info' = IF ReachesLookup(PhotoYear, month, readme)
                                  THEN loaded ELSE _photo_info
                /\ ret' = generate_month_data(loaded, photo_files, PhotoYear,
                              month, readme, photo_dirs, use_absolute_paths,
                              web_optimized)
                /\ UNCHANGED projection
                /\ UNCHANGED <<manifest_file, photo_files>>
                /\ UNCHANGED <<output_files, pc, written>>

NextPhoto ==
    \/ FindPhotoForDate
    \/ GenerateMonthData
    \/ Return

SpecPhoto == InitPhoto /\ [][NextPhoto]_vars

----------------------------------------------------------------------------
(* Repeated lookups on one CalendarGenerator *)

\* the dates looked up between the two lookups of a date
OtherDates ==
    { _ymd2ord(PhotoYear, 1, 1),
      _ymd2ord(PhotoYear, NumPhotoMonths, _days_in_month(PhotoYear, NumPhotoMonths)) }

\* three calls of find_photo_for_date in a row on the same generator, manifest
\* and photo tree: for target_date, for other_date, and for target_date again
\* with the same photo_dirs and flags; ret holds the three results in order
RepeatedLookup ==
    \E first \in {LoadedPhotoInfo(_photo_info, manifest_file)} :
      \E second \in {LoadedPhotoInfo(first, manifest_file)} :
        \E third \in {LoadedPhotoInfo(second, manifest_file)} :
          \E target_date \in PhotoDates, other_date \in OtherDates,
             use_absolute_paths \in BOOLEAN, web_optimized \in BOOLEAN :
            /\ Idle
            /\ op' = "find_photo_for_date, repeated"
            /\ args' = <<target_date, other_date, use_absolute_paths,
                         web_optimized>>
            /\ ret' = << find_photo_for_date(first.value, photo_files,
                             target_date,
                             DefaultPhotoDirs(YearOf(target_date),
                                              MonthOf(target_date)),
                             use_absolute_paths, web_optimized),
                         find_photo_for_date(second.value, photo_files,
                             other_date,
                             DefaultPhotoDirs(YearOf(other_date),
                                              MonthOf(other_date)),
                             use_absolute_paths, web_optimized),
                         find_photo_for_date(third.value, photo_files,
                             target_date,
                             DefaultPhotoDirs(YearOf(target_date),
                                              MonthOf(target_date)),
                             use_absolute_paths, web_optimized) >>
            /\ _photo_info' = third
            /\ UNCHANGED projection
            /\ UNCHANGED <<manifest_file, photo_files>>
            /\ UNCHANGED <<output_files, pc, written>>

NextRepeat ==
    \/ RepeatedLookup
    \/ Return

SpecRepeat == InitPhoto /\ [][NextRepeat]_vars

----------------------------------------------------------------------------
(* build_calendar.py: CalendarBuilder.build_month, step by step *)

(* A file below output/ is a record (kind, year, month), kind being "qr",    *)
(* "map", "html", "pdf_html" or "pdf".  An entry of written is such a record *)
(* or a record (kind "thumbnails", paths) for the web thumbnails created.    *)

OutputFile(kind, year, month) == [kind |-> kind, year |-> year, month |-> month]

\* check_photo_directory: the .jpg files directly in photos/YYYY/MM
JpgFiles(files, year, month) ==
    { f \in files : f.dir = PhotoDir(year, month) /\ ~f.web }

\* validate_photos_for_month: the directory holds at least one photo
validate_photos_for_month(files, year, month) ==
    JpgFiles(files, year, month) # {}

\* optimize_month_photos: the thumbnails created, one for each photo of
\* photos/YYYY/MM that has none
NewThumbnails(files, year, month) ==
    { WebPhotoPath(f.dir, f.name) : f \in JpgFiles(files, year, month) } \ files

\* the result of a build that failed
BuildFailure(reason, cause) ==
    [success |-> FALSE, reason |-> reason, cause |-> cause]

\* the year, the month, the README state and generate_pdf of the running build
BuildYear == args[1]
BuildMonthArg == args[2]
BuildReadme == args[3]
BuildPdf == args[4]

\* a CalendarBuilder over an explored photo tree and an empty output tree
InitBuild == InitPhoto

\* build_month(year, month, generate_pdf), lines 165-172: the output
\* directories are created
BuildMonth ==
    \E month \in PhotoMonths, readme \in ReadmeStates, generate_pdf \in BOOLEAN :
        /\ Idle
        /\ op' = "build_month"
        /\ args' = <<PhotoYear, month, readme, generate_pdf>>
        /\ ret' = None
        /\ pc' = "validate"
        /\ written' = <<>>
        /\ UNCHANGED projection
        /\ UNCHANGED <<manifest_file, photo_files, _photo_info, output_files>>

\* build_month, lines 174-177
ValidatePhotos ==
    /\ pc = "validate"
    /\ IF validate_photos_for_month(photo_files, BuildYear, BuildMonthArg)
       THEN pc' = "location" /\ ret' = ret
       ELSE pc' = "done" /\ ret' = BuildFailure("insufficient_photos", None)
    /\ UNCHANGED projection
    /\ UNCHANGED <<op, args, manifest_file, photo_files, _photo_info,
                   output_files, written>>

\* build_month, lines 181-186
LoadLocation ==
    /\ pc = "location"
    /\ IF LocationError(BuildReadme) = None
       THEN pc' = "qr" /\ ret' = ret
       ELSE /\ pc' = "done"
            /\ ret' = BuildFailure("location_data_missing",
                                   LocationError(BuildReadme))
    /\ UNCHANGED projection
    /\ UNCHANGED <<op, args, manifest_file, photo_files, _photo_info,
                   output_files, written>>

\* build_month, lines 188-195: the QR code image is saved
GenerateQr ==
    /\ pc = "qr"
    /\ output_files' = output_files \cup {OutputFile("qr", BuildYear, BuildMonthArg)}
    /\ written' = Append(written, OutputFile("qr", BuildYear, BuildMonthArg))
    /\ pc' = "map"
    /\ UNCHANGED projection
    /\ UNCHANGED <<op, args, ret, manifest_file, photo_files, _photo_info>>

\* build_month, lines 197-207: the world map is saved unless it exists
GenerateMap ==
    /\ pc = "map"
    /\ IF OutputFile("map", BuildYear, BuildMonthArg) \in output_files
       THEN UNCHANGED <<output_files, written>>
       ELSE /\ output_files' = output_files
                    \cup {OutputFile("map", BuildYear, BuildMonthArg)}
            /\ written' = Append(written,
                              OutputFile("map", BuildYear, BuildMonthArg))
    /\ pc' = "thumbnails"
    /\ UNCHANGED projection
    /\ UNCHANGED <<op, args, ret, manifest_file, photo_files, _photo_info>>

\* build_month, lines 209-214: the web thumbnails are created
OptimizeMonthPhotos ==
    /\ pc = "thumbnails"
    /\ \E created \in {NewThumbnails(photo_files, BuildYear, BuildMonthArg)} :
          /\ photo_files' = photo_files \cup created
          /\ written' = IF created = {} THEN written
                        ELSE Append(written,
                                 [kind |-> "thumbnails", paths |-> created])
    /\ pc' = "page"
    /\ UNCHANGED projection
    /\ UNCHANGED <<op, args, ret, manifest_file, _photo_info, output_files>>

\* build_month, lines 216-228 and 275-278: generate_calendar_page builds the
\* month data, renders it and saves the page; an exception ends the build
GeneratePage ==
    /\ pc = "page"
    /\ \E loaded \in {LoadedPhotoInfo(_photo_info, manifest_file)} :
        \E data \in {generate_month_data(loaded, photo_files, BuildYear,
                         BuildMonthArg, BuildReadme,
                         <<PhotoDir(BuildYear, BuildMonthArg)>>, FALSE, TRUE)} :
          /\ _photo_info' = loaded
          /\ IF IsError(data)
             THEN /\ ret' = BuildFailure("location_data_error", data)
                  /\ pc' = "done"
                  /\ UNCHANGED <<output_files, written>>
             ELSE /\ output_files' = output_files
                        \cup {OutputFile("html", BuildYear, BuildMonthArg)}
                  /\ written' = Append(written,
                                    OutputFile("html", BuildYear, BuildMonthArg))
                  /\ pc' = IF BuildPdf THEN "pdf" ELSE "done"
                  /\ ret' = IF BuildPdf THEN ret
                            ELSE [success |-> TRUE, year |-> BuildYear,
                                  month |-> BuildMonthArg, pdf |-> FALSE]
    /\ UNCHANGED projection
    /\ UNCHANGED <<op, args, manifest_file, photo_files>>

\* build_month, lines 240-271: the page for the PDF is generated with
\* absolute paths and full-size photos, converted (the conversion may fail)
\* and removed
GeneratePdf ==
    /\ pc = "pdf"
    /\ \E converted \in BOOLEAN :
        \E data \in {generate_month_data(_photo_info, photo_files, BuildYear,
                         BuildMonthArg, BuildReadme,
                         <<PhotoDir(BuildYear, BuildMonthArg)>>, TRUE, FALSE)} :
          IF IsError(data)
          THEN /\ ret' = BuildFailure("location_data_error", data)
               /\ UNCHANGED <<output_files, written>>
          ELSE /\ output_files' = output_files \cup
                    (IF converted
                     THEN {OutputFile("pdf", BuildYear, BuildMonthArg)} ELSE {})
               /\ written' = Append(written,
                     OutputFile("pdf_html", BuildYear, BuildMonthArg))
                     \o (IF converted
                         THEN <<OutputFile("pdf", BuildYear, BuildMonthArg)>>
                         ELSE <<>>)
               /\ ret' = [success |-> TRUE, year |-> BuildYear,
                          month |-> BuildMonthArg, pdf |-> converted]
    /\ pc' = "done"
    /\ UNCHANGED projection
    /\ UNCHANGED <<op, args, manifest_file, photo_files, _photo_info>>

NextBuild ==
    \/ BuildMonth
    \/ ValidatePhotos
    \/ LoadLocation
    \/ GenerateQr
    \/ GenerateMap
    \/ OptimizeMonthPhotos
    \/ GeneratePage
    \/ GeneratePdf
    \/ Return

SpecBuild == InitBuild /\ [][NextBuild]_vars

----------------------------------------------------------------------------
(* The perpetual calendar: calendar_generator.py, generate_perpetual_month_data *)

\* the filename "placeholder", photo files being named by numbers from 1
Placeholder == <<0>>

\* _load_photo_observations_from_info_file, lines 138-145: a line that is
\* counted, having a filename other than "placeholder" and an observation
\* id other than "0"
HasObservation(parts) ==
    /\ Len(parts) >= 3
    /\ parts[2] # <<>>
    /\ parts[2] # Placeholder
    /\ parts[3] # <<0>>
    /\ parts[3] # <<>>

\* _load_photo_observations_from_info_file, lines 163-164: yyyymm[:4] and
\* yyyymm[4:6]
YearMonthOf(yyyymm) ==
    <<SubSeq(yyyymm, 1, Min(4, Len(yyyymm))),
      SubSeq(yyyymm, 5, Min(6, Len(yyyymm)))>>

\* _load_photo_observations_from_info_file, lines 136-167: the loop over the
\* data lines gives the n-th counted line of a month the date key YYYY-MM-nn
\* (one more than the number of keys of the month met so far)
ObservationLines(lines) ==
    LET counted == SelectSeq(lines, HasObservation)
        months  == { YearMonthOf(counted[i][1]) : i \in 1..Len(counted) }
        of(ym)  == SelectSeq(counted, LAMBDA parts : YearMonthOf(parts[1]) = ym)
        keys    == UNION { { <<ym[1], ym[2], Pad2(n)>> : n \in 1..Len(of(ym)) } :
                           ym \in months }
    IN  [date_key \in keys |->
            LET listed == of(<<date_key[1], date_key[2]>>)
            IN  listed[CHOOSE n \in 1..Len(listed) : Pad2(n) = date_key[3]][3]]

\* CalendarGenerator._load_photo_observations_from_info_file: {} when the
\* file does not exist, else the observation id per date key
_load_photo_observations_from_info_file(file) ==
    IF ~file.exists THEN <<>>
    ELSE ObservationLines(SubSeq(file.lines, 2, Len(file.lines)))

\* CalendarGenerator.find_photo_for_date_with_key, on the loaded manifest
\* photo_info; month_key_override None stands for an argument left out
find_photo_for_date_with_key(photo_info, files, target_date, photo_dirs, use_absolute_paths, web_optimized, month_key_override) ==
    LET month_key    == IF month_key_override # None THEN month_key_override
                        ELSE MonthKey(YearOf(target_date), MonthOf(target_date))
        day_of_month == DayOf(target_date)
    IN  IF month_key \in DOMAIN photo_info
        THEN LET photos_for_month == photo_info[month_key]
                 photo_index      == day_of_month - 1
             IN  IF photo_index < Len(photos_for_month)
                 THEN SearchDirs(photo_dirs, photos_for_month[photo_index + 1],
                                 files, use_absolute_paths, web_optimized)
                 ELSE None
        ELSE None

\* variant: February has the length the source year gives it
PerpetualDaysInMonth_calendar(source_year, month) ==
    _days_in_month(source_year, month)

\* generate_perpetual_month_data, lines 449-455: the days the grid holds
PerpetualDaysInMonth(source_year, month) ==
    IF month = 2 THEN 29 ELSE _days_in_month(source_year, month)

\* generate_perpetual_month_data, lines 457-463: the columns of the grid
PerpetualColumns(days_in_month) ==
    IF days_in_month = 31 THEN 7 ELSE 6

\* generate_perpetual_month_data, lines 457-463: the rows of the layout
PerpetualRows(days_in_month) ==
    IF days_in_month = 31 THEN 5 ELSE 5

\* generate_perpetual_month_data, lines 472 and 486: February 29 of a source
\* year that is not a leap year
LeapDayOverride(source_year, month, day) ==
    month = 2 /\ day = 29 /\ ~isleap(source_year)

\* generate_perpetual_month_data, lines 471-476: the date object of a day
PerpetualDayDate(source_year, month, day) ==
    IF LeapDayOverride(source_year, month, day)
    THEN _ymd2ord(2024, month, day)
    ELSE _ymd2ord(source_year, month, day)

\* variant: the photo of every day is looked up under the key of its date
PerpetualImagePath_by_date(photo_info, files, source_year, month, day, day_date, photo_dirs, use_absolute_paths, web_optimized) ==
    find_photo_for_date(photo_info, files, day_date, photo_dirs,
                        use_absolute_paths, web_optimized)

\* generate_perpetual_month_data, lines 485-492: the photo of a day
PerpetualImagePath(photo_info, files, source_year, month, day, day_date, photo_dirs, use_absolute_paths, web_optimized) ==
    IF LeapDayOverride(source_year, month, day)
    THEN find_photo_for_date_with_key(photo_info, files, day_date, photo_dirs,
             use_absolute_paths, web_optimized, MonthKey(source_year, month))
    ELSE find_photo_for_date(photo_info, files, day_date, photo_dirs,
             use_absolute_paths, web_optimized)

\* generate_perpetual_month_data, lines 498-503: the observation id of a
\* day, the empty string standing for a day_info without the key
PerpetualObservation(photo_observations, date_key) ==
    IF date_key \in DOMAIN photo_observations
    THEN LET observation_id == photo_observations[date_key]
         IN  IF observation_id # <<>> /\ observation_id # <<0>>
             THEN observation_id
             ELSE <<>>
    ELSE <<>>

\* generate_perpetual_month_data, lines 470-503: the day_info of one day
PerpetualDayInfo(photo_info, photo_observations, files, source_year, month, day, day_date, photo_dirs, use_absolute_paths, web_optimized) ==
    [date |-> day_date,
     day |-> day,
     is_current_month |-> TRUE,
     is_previous_month |-> FALSE,
     is_next_month |-> FALSE,
     image_path |-> PerpetualImagePath(photo_info, files, source_year, month,
                        day, day_date, photo_dirs, use_absolute_paths,
                        web_optimized),
     observation_id |-> PerpetualObservation(photo_observations,
                                             strftime_ymd(day_date))]

\* variant: a cell that fills the last week is marked as of the next month
EmptyDay_next_month ==
    [date |-> None,
     day |-> "",
     is_current_month |-> FALSE,
     is_previous_month |-> FALSE,
     is_next_month |-> TRUE,
     image_path |-> None,
     observation_id |-> <<>>]

\* generate_perpetual_month_data, lines 514-521: a cell that fills the last
\* week
EmptyDay ==
    [date |-> None,
     day |-> "",
     is_current_month |-> FALSE,
     is_previous_month |-> FALSE,
     is_next_month |-> FALSE,
     image_path |-> None,
     observation_id |-> <<>>]

\* variant: the days left over make a last week that is not filled
PerpetualWeeks_unpadded(days, columns) ==
    LET full == Len(days) \div columns
        left == Len(days) % columns
        week(i) == [dates |-> SubSeq(days, columns * (i - 1) + 1, columns * i)]
        last == [dates |-> SubSeq(days, columns * full + 1, Len(days))]
    IN  [i \in 1..full |-> week(i)]
        \o (IF left > 0 THEN <<last>> ELSE <<>>)

\* generate_perpetual_month_data, lines 505-522: a week is closed every
\* "columns" days, and the days left over make a last week filled with
\* empty cells
PerpetualWeeks(days, columns) ==
    LET full == Len(days) \div columns
        left == Len(days) % columns
        week(i) == [dates |-> SubSeq(days, columns * (i - 1) + 1, columns * i)]
        last == [dates |-> SubSeq(days, columns * full + 1, Len(days))
                           \o [j \in 1..(columns - left) |-> EmptyDay]]
    IN  [i \in 1..full |-> week(i)]
        \o (IF left > 0 THEN <<last>> ELSE <<>>)

\* variant: only days dated in the year of the first day are reported
PerpetualMissing_own_year(days) ==
    LET hit == SelectSeq(days, LAMBDA day_info :
                   /\ day_info.image_path = None
                   /\ YearOf(day_info.date) = YearOf(days[1].date))
    IN  [i \in 1..Len(hit) |-> strftime_ymd(hit[i].date)]

\* generate_perpetual_month_data, lines 494-496: missing_photos, the
\* formatted dates of the days without a photo, in day order
PerpetualMissing(days) ==
    LET hit == SelectSeq(days, LAMBDA day_info : day_info.image_path = None)
    IN  [i \in 1..Len(hit) |-> strftime_ymd(hit[i].date)]

\* generate_perpetual_month_data, lines 431-584, on the loaded manifest
\* photo_info and the loaded observations; photo_dirs <<>> stands for an
\* argument that is None or empty
PerpetualDataOf(photo_info, photo_observations, files, month, source_year, readme, photo_dirs, use_absolute_paths, web_optimized) ==
    IF LocationError(readme) # None THEN LocationError(readme)
    ELSE
    LET dirs == IF photo_dirs = <<>> THEN DefaultPhotoDirs(source_year, month)
                ELSE photo_dirs
        days_in_month == PerpetualDaysInMonth(source_year, month)
        columns == PerpetualColumns(days_in_month)
        day_info == [day \in 1..days_in_month |->
                    PerpetualDayInfo(photo_info, photo_observations, files,
                        source_year, month, day,
                        PerpetualDayDate(source_year, month, day), dirs,
                        use_absolute_paths, web_optimized)]
        \* the day_infos in the order of the loop over range(1, days_in_month + 1)
        days == SubSeq(day_info, 1, days_in_month)
        missing_photos == PerpetualMissing(days)
    IN  IF missing_photos # <<>>
        THEN [error |-> "FileNotFoundError",
              what |-> "missing photos",
              missing |-> missing_photos]
        ELSE [year |-> None,
              month |-> month,
              weeks |-> PerpetualWeeks(days, columns),
              layout |-> [layout_type |-> "perpetual",
                          columns |-> columns,
                          rows_needed |-> PerpetualRows(days_in_month),
                          days_in_month |-> days_in_month]]

\* CalendarGenerator.generate_perpetual_month_data on the loaded manifest
\* cache.value and the loaded observations
generate_perpetual_month_data(cache, photo_observations, files, month, source_year, readme, photo_dirs, use_absolute_paths, web_optimized) ==
    PerpetualDataOf(cache.value, photo_observations, files, month,
                    source_year, readme, photo_dirs, use_absolute_paths,
                    web_optimized)

\* the source years of the perpetual builds explored: a year that is not a
\* leap year and a leap year
PerpetualYears == {FirstYear + 3, FirstYear + 4}

PerpetualMonths == 1..12

\* the numbers of lines the source month is listed with
PerpetualEntryCounts(source_year, month) ==
    (PerpetualDaysInMonth(source_year, month) - 1) ..
        (PerpetualDaysInMonth(source_year, month) + 1)

\* the numbers of lines February 2024 is listed with
LeapEntryCounts == {0, 29}

\* the photo trees explored around a source month
PerpetualEnvs == {"full", "web", "hole", "nofile"}

\* the month keys of the data lines of the manifest, in file order:
\* February 2024 with "leap" lines, then the source month with k lines
PerpetualManifestKeys(source_year, month, k, leap) ==
    [i \in 1..leap |-> <<2024, 2>>] \o [i \in 1..k |-> <<source_year, month>>]

\* photos/photo_information.txt: the header line, then one line
\* (YYYYMM, filename, observation id) per photo, named by its line number
PerpetualManifestOf(source_year, month, k, leap, env) ==
    IF env = "nofile" THEN [exists |-> FALSE]
    ELSE LET keys == PerpetualManifestKeys(source_year, month, k, leap)
         IN  [exists |-> TRUE,
              lines |-> <<<<<<"YYYYMM">>, <<"filename">>, <<"observation_id">>>>>>
                        \o [i \in 1..Len(keys) |->
                              <<MonthKey(keys[i][1], keys[i][2]), <<i>>, <<i>>>>]]

\* the photo files on disk: every listed photo in the directory of its month
\* (in "web": with a web thumbnail; in "hole": but for the last photo listed)
PerpetualDiskOf(source_year, month, k, leap, env) ==
    IF env = "nofile" THEN {}
    ELSE LET keys == PerpetualManifestKeys(source_year, month, k, leap)
             kept == { i \in 1..Len(keys) : ~(env = "hole" /\ i = Len(keys)) }
             dir(i) == PhotoDir(keys[i][1], keys[i][2])
         IN  { PhotoPath(dir(i), <<i>>) : i \in kept }
             \cup (IF env = "web"
                   THEN { WebPhotoPath(dir(i), <<i>>) : i \in kept } ELSE {})

InitPerpetual ==
    \E source_year \in PerpetualYears, month \in PerpetualMonths,
       leap \in LeapEntryCounts, env \in PerpetualEnvs :
      \E k \in IF env = "nofile" THEN {0}
               ELSE PerpetualEntryCounts(source_year, month) :
        /\ op = "idle"
        /\ args = <<>>
        /\ ret = None
        /\ manifest_file = PerpetualManifestOf(source_year, month, k, leap, env)
        /\ photo_files = PerpetualDiskOf(source_year, month, k, leap, env)
        /\ _photo_info = [set |-> FALSE]
        /\ output_files = {}
        /\ pc = "none"
        /\ written = <<>>
        /\ projection = None

\* the months a perpetual build is run for: those the manifest lists under
\* a source year, or February when there is no manifest
PreparedMonths(file) ==
    IF ~file.exists THEN {2}
    ELSE LET keys == { file.lines[i][1] : i \in 2..Len(file.lines) }
         IN  { month \in PerpetualMonths :
                 \E source_year \in PerpetualYears :
                     MonthKey(source_year, month) \in keys }

\* a call of generate_perpetual_month_data(month, source_year, None, None,
\* ...) for a month the build is prepared for
GeneratePerpetualMonthData ==
    /\ Idle
    /\ \E loaded \in {LoadedPhotoInfo(_photo_info, manifest_file)},
          photo_observations \in
              {_load_photo_observations_from_info_file(manifest_file)} :
        \E month \in PreparedMonths(manifest_file),
           source_year \in PerpetualYears, readme \in ReadmeStates,
           use_absolute_paths \in BOOLEAN, web_optimized \in BOOLEAN :
            LET photo_dirs == <<>>
            IN  /\ op' = "generate_perpetual_month_data"
                /\ args' = <<month, source_year, readme, photo_dirs,
                             use_absolute_paths, web_optimized>>
                /\ _photo_info' = IF LocationError(readme) = None
                                  THEN loaded ELSE _photo_info
                /\ ret' = generate_perpetual_month_data(loaded,
                              photo_observations, photo_files, month,
                              source_year, readme, photo_dirs,
                              use_absolute_paths, web_optimized)
                /\ UNCHANGED projection
                /\ UNCHANGED <<manifest_file, photo_files>>
                /\ UNCHANGED <<output_files, pc, written>>

NextPerpetual ==
    \/ GeneratePerpetualMonthData
    \/ Return

SpecPerpetual == InitPerpetual /\ [][NextPerpetual]_vars

----------------------------------------------------------------------------
(* Lookups on one CalendarGenerator while the manifest changes on disk *)

\* the sequence in reverse order
Reversed(seq) == [i \in 1..Len(seq) |-> seq[Len(seq) + 1 - i]]

\* what photos/photo_information.txt can be changed to between two calls:
\* removed, cut down to its header line, or its data lines put in reverse
\* order
ManifestEdits(file) ==
    IF ~file.exists \/ Len(file.lines) <= 1 THEN {}
    ELSE { [exists |-> FALSE],
           [exists |-> TRUE, lines |-> <<file.lines[1]>>],
           [exists |-> TRUE,
            lines |-> <<file.lines[1]>> \o Reversed(Tail(file.lines))] }

\* photos/photo_information.txt is changed by somebody else, between calls
EditManifest ==
    \E file \in ManifestEdits(manifest_file) :
        /\ Idle
        /\ file # manifest_file
        /\ manifest_file' = file
        /\ UNCHANGED <<op, args, ret>>
        /\ UNCHANGED projection
        /\ UNCHANGED <<photo_files, _photo_info>>
        /\ UNCHANGED <<output_files, pc, written>>

\* the dates looked up with a month key
KeyDates ==
    { _ymd2ord(PhotoYear, 1, 1), _ymd2ord(PhotoYear, 1, 2),
      _ymd2ord(PhotoYear, NumPhotoMonths, _days_in_month(PhotoYear, NumPhotoMonths)) }

\* a call of find_photo_for_date_with_key(target_date, photo_dirs, ...,
\* month_key_override), the override left out or the key of a photo month
FindPhotoForDateWithKey ==
    \E cache \in {LoadedPhotoInfo(_photo_info, manifest_file)} :
        \E target_date \in KeyDates, use_absolute_paths \in BOOLEAN,
           overridden \in BOOLEAN, key_month \in PhotoMonths :
            LET photo_dirs == DefaultPhotoDirs(YearOf(target_date),
                                               MonthOf(target_date))
                month_key_override == IF overridden
                                      THEN MonthKey(PhotoYear, key_month)
                                      ELSE None
                web_optimized == FALSE
            IN  /\ Idle
                /\ op' = "find_photo_for_date_with_key"
                /\ args' = <<target_date, photo_dirs, use_absolute_paths,
                             web_optimized, month_key_override>>
                /\ _photo_info' = cache
                /\ ret' = find_photo_for_date_with_key(cache.value,
                              photo_files, target_date, photo_dirs,
                              use_absolute_paths, web_optimized,
                              month_key_override)
                /\ UNCHANGED projection
                /\ UNCHANGED <<manifest_file, photo_files>>
                /\ UNCHANGED <<output_files, pc, written>>

NextSnapshot ==
    \/ FindPhotoForDate
    \/ FindPhotoForDateWithKey
    \/ EditManifest
    \/ Return

\* the generator is constructed over a manifest that lists the primary
\* month completely or MaxShort lines short, with or without its neighbours
InitSnapshot ==
    \E month \in PhotoMonths, env \in {"full", "alone"} :
      \E k \in { _days_in_month(PhotoYear, month) - MaxShort,
                 _days_in_month(PhotoYear, month) } :
        /\ op = "idle"
        /\ args = <<>>
        /\ ret = None
        /\ manifest_file = ManifestOf(PhotoYear, month, k, env)
        /\ photo_files = DiskOf(PhotoYear, month, k, env)
        /\ _photo_info = [set |-> FALSE]
        /\ output_files = {}
        /\ pc = "none"
        /\ written = <<>>
        /\ projection = None

SpecSnapshot == InitSnapshot /\ [][NextSnapshot]_vars

----------------------------------------------------------------------------
(* The two loaders of photos/photo_information.txt *)

\* the greatest number of data lines of the manifests explored
MaxManifestLines == 3

\* the kinds of data lines: a photo with its observation id, the filename
\* "placeholder", a photo with the observation id "0", and a photo whose
\* line has no third field
LineKinds == {"photo", "placeholder", "zero", "none"}

\* the data line of a kind written as line i for month key yyyymm; a photo
\* and its observation id are named by the line number
LineOf(yyyymm, kind, i) ==
    IF kind = "photo" THEN <<yyyymm, <<i>>, <<i>>>>
    ELSE IF kind = "placeholder" THEN <<yyyymm, Placeholder, <<0>>>>
    ELSE IF kind = "zero" THEN <<yyyymm, <<i>>, <<0>>>>
    ELSE <<yyyymm, <<i>>>>

\* the month keys the explored manifests list
LoaderMonthKeys == { MonthKey(PhotoYear, 1), MonthKey(PhotoYear, 2) }

\* the explored manifests: the header line and up to MaxManifestLines data
\* lines, each of any month key and kind
LoaderManifests ==
    { [exists |-> TRUE,
       lines |-> <<<<<<"YYYYMM">>, <<"filename">>, <<"observation_id">>>>>>
                 \o [i \in 1..n |-> LineOf(keys[i], kinds[i], i)]] :
        <<n, keys, kinds>> \in
            UNION { {n} \X [1..n -> LoaderMonthKeys] \X [1..n -> LineKinds] :
                    n \in 0..MaxManifestLines } }
    \cup { [exists |-> FALSE] }

InitLoaders ==
    \E file \in LoaderManifests :
        /\ op = "idle"
        /\ args = <<>>
        /\ ret = None
        /\ manifest_file = file
        /\ photo_files = {}
        /\ _photo_info = [set |-> FALSE]
        /\ output_files = {}
        /\ pc = "none"
        /\ written = <<>>
        /\ projection = None

\* a call of _load_photo_information()
LoadPhotoInformation ==
    /\ Idle
    /\ op' = "_load_photo_information"
    /\ args' = <<>>
    /\ ret' = _load_photo_information(manifest_file)
    /\ UNCHANGED projection
    /\ UNCHANGED <<manifest_file, photo_files, _photo_info>>
    /\ UNCHANGED <<output_files, pc, written>>

\* a call of _load_photo_observations_from_info_file()
LoadPhotoObservations ==
    /\ Idle
    /\ op' = "_load_photo_observations_from_info_file"
    /\ args' = <<>>
    /\ ret' = _load_photo_observations_from_info_file(manifest_file)
    /\ UNCHANGED projection
    /\ UNCHANGED <<manifest_file, photo_files, _photo_info>>
    /\ UNCHANGED <<output_files, pc, written>>

NextLoaders ==
    \/ LoadPhotoInformation
    \/ LoadPhotoObservations
    \/ Return

SpecLoaders == InitLoaders /\ [][NextLoaders]_vars

----------------------------------------------------------------------------
(* world_map_generator.py: WorldMapGenerator.parse_coordinates *)

(* A coordinate string is the sequence of its characters; the degree sign   *)
(* is written "deg", the minute mark (prime) "min" and the second mark      *)
(* (double prime) "sec".  A float is the exact rational it denotes, a       *)
(* record (num, den) in lowest terms with den > 0.                          *)

RECURSIVE Gcd(_, _)
Gcd(a, b) == IF b = 0 THEN a ELSE Gcd(b, a % b)

\* the rational num / den, den > 0, in lowest terms
Rat(num, den) ==
    LET g == Gcd(IF num < 0 THEN -num ELSE num, den)
    IN  [num |-> num \div g, den |-> den \div g]

RatAdd(a, b) == Rat(a.num * b.den + b.num * a.den, a.den * b.den)
RatNeg(a)    == [num |-> -a.num, den |-> a.den]
RatDiv(a, n) == Rat(a.num, a.den * n)
Zero         == [num |-> 0, den |-> 1]

\* the ValueError parse_coordinates raises, lines 224-225
CoordinateError == [error |-> "ValueError"]

Digit == {"0", "1", "2", "3", "4", "5", "6", "7", "8", "9"}

DigitValue(c) ==
    CASE c = "0" -> 0 [] c = "1" -> 1 [] c = "2" -> 2 [] c = "3" -> 3
      [] c = "4" -> 4 [] c = "5" -> 5 [] c = "6" -> 6 [] c = "7" -> 7
      [] c = "8" -> 8 [] c = "9" -> 9

RECURSIVE DigitsValue(_)
\* the number a string of digits denotes
DigitsValue(digits) ==
    IF digits = <<>> THEN 0
    ELSE 10 * DigitsValue(SubSeq(digits, 1, Len(digits) - 1))
         + DigitValue(digits[Len(digits)])

RECURSIVE Pow10(_)
Pow10(k) == IF k = 0 THEN 1 ELSE 10 * Pow10(k - 1)

\* float(chars), for strings of the characters explored: an optional sign,
\* then digits with at most one point among them; a ValueError otherwise
float(chars) ==
    LET signed   == chars # <<>> /\ chars[1] \in {"-", "+"}
        unsigned == IF signed THEN Tail(chars) ELSE chars
        digits   == SelectSeq(unsigned, LAMBDA c : c \in Digit)
        points   == { i \in 1..Len(unsigned) : unsigned[i] = "." }
        decimals == IF points = {} THEN 0
                    ELSE Len(unsigned) - (CHOOSE i \in points : TRUE)
        value    == Rat(DigitsValue(digits), Pow10(decimals))
    IN  IF \/ digits = <<>>
           \/ Cardinality(points) > 1
           \/ \E i \in 1..Len(unsigned) : unsigned[i] \notin Digit \cup {"."}
        THEN CoordinateError
        ELSE IF signed /\ chars[1] = "-" THEN RatNeg(value) ELSE value

\* str.replace(old, new) for a character old and new one character or none
Replace(str, old, new) ==
    IF new = <<>> THEN SelectSeq(str, LAMBDA c : c # old)
    ELSE [i \in 1..Len(str) |-> IF str[i] = old THEN new[1] ELSE str[i]]

\* str.split(sep) for a character sep
Split(str, sep) ==
    LET at    == SelectSeq([i \in 1..Len(str) |-> i], LAMBDA i : str[i] = sep)
        from(j) == IF j = 1 THEN 1 ELSE at[j - 1] + 1
        to(j)   == IF j = Len(at) + 1 THEN Len(str) ELSE at[j] - 1
    IN  [j \in 1..(Len(at) + 1) |-> SubSeq(str, from(j), to(j))]

\* str.upper(), for the characters explored
Upper(c) == IF c = "s" THEN "S" ELSE IF c = "w" THEN "W" ELSE c

\* 'C' in coord_str.upper()
InUpper(c, str) == \E i \in 1..Len(str) : Upper(str[i]) = c

\* the end of the longest run of characters of class from position i on
\* (i - 1 when str[i] is not of the class)
RunEnd(str, i, class) ==
    LET stops == { j \in i..Len(str) : str[j] \notin class }
    IN  IF stops = {} THEN Len(str)
        ELSE (CHOOSE j \in stops : \A k \in stops : j <= k) - 1

\* the largest member of a non-empty set of numbers
Largest(S) == CHOOSE x \in S : \A y \in S : y <= x

\* lines 180-181, the end of the pattern: \s*[SN] or \s*[EW] after position p
\* (the cardinal follows the spaces, all of which \s* has to take)
CardinalAfter(str, p, cardinals) ==
    LET q == RunEnd(str, p + 1, {" "}) + 1
    IN  q <= Len(str) /\ str[q] \in cardinals

\* one sequence of three numbers before another in the order of the
\* first, then the second, then the third
LexLeq(u, t) ==
    \/ u[1] < t[1]
    \/ u[1] = t[1] /\ u[2] < t[2]
    \/ u[1] = t[1] /\ u[2] = t[2] /\ u[3] <= t[3]

\* lines 180-181, the optional group (?:deg([0-9]+)\s*([0-9]+))? after
\* position p and the cardinal after it: the ways to match are the triples
\* (end of group 2, start of group 3, end of group 3), and the one taken
\* lets group 2, then the spaces, then group 3 take the most; None when
\* there is no way
GroupAfter(str, p, cardinals) ==
    IF ~(p + 1 <= Len(str) /\ str[p + 1] = "deg") THEN None
    ELSE LET ways ==
               UNION { UNION { { <<end2, at3, end3>> :
                   end3 \in { e \in at3..RunEnd(str, at3, Digit) :
                                CardinalAfter(str, e, cardinals) } } :
                   at3 \in (end2 + 1)..(RunEnd(str, end2 + 1, {" "}) + 1) } :
                   end2 \in (p + 2)..RunEnd(str, p + 2, Digit) }
         IN  IF ways = {} THEN None
             ELSE LET way == CHOOSE t \in ways : \A u \in ways : LexLeq(u, t)
                  IN  [group2 |-> SubSeq(str, p + 2, way[1]),
                       group3 |-> SubSeq(str, way[2], way[3])]

\* lines 180-181, a match of the pattern that starts at position i: group 1
\* takes the most digits and points that let the rest match, the optional
\* group is taken when it can be, and the cardinal follows; None when the
\* pattern does not match at i
MatchAt(str, i, cardinals) ==
    LET ends == { end1 \in i..RunEnd(str, i, Digit \cup {"."}) :
                    \/ GroupAfter(str, end1, cardinals) # None
                    \/ CardinalAfter(str, end1, cardinals) }
    IN  IF ends = {} THEN None
        ELSE LET end1  == Largest(ends)
                 group == GroupAfter(str, end1, cardinals)
             IN  IF group # None
                 THEN [group1 |-> SubSeq(str, i, end1),
                       group2 |-> group.group2,
                       group3 |-> group.group3]
                 ELSE [group1 |-> SubSeq(str, i, end1),
                       group2 |-> <<>>,
                       group3 |-> <<>>]

\* re.search of the pattern of line 180 ([SN]) or 181 ([EW]): the match at
\* the leftmost position that has one, or None; a group that did not take
\* part is the empty string
Search(str, cardinals) ==
    LET starts == { i \in 1..Len(str) : MatchAt(str, i, cardinals) # None }
    IN  IF starts = {} THEN None
        ELSE MatchAt(str, CHOOSE i \in starts : \A j \in starts : i <= j,
                     cardinals)

\* float(match.group(n)) if match.group(n) else 0, lines 208-209 and 216-217
FloatOrZero(group) == IF group # <<>> THEN float(group) ELSE Zero

\* variant: minutes and seconds are taken as hundredths
Degrees_decimal(deg, minutes, seconds) ==
    RatAdd(RatAdd(deg, RatDiv(minutes, 100)), RatDiv(seconds, 10000))

\* lines 210 and 218: deg + min/60 + sec/3600
Degrees(deg, minutes, seconds) ==
    RatAdd(RatAdd(deg, RatDiv(minutes, 60)), RatDiv(seconds, 3600))

\* lines 206-212 and 214-220: the component of a match, negated when the
\* upper-cased string holds the negative cardinal
Component(match, coord_str, negative) ==
    LET deg     == float(match.group1)
        minutes == FloatOrZero(match.group2)
        seconds == FloatOrZero(match.group3)
    IN  IF IsError(deg) \/ IsError(minutes) \/ IsError(seconds)
        THEN CoordinateError
        ELSE IF InUpper(negative, coord_str)
        THEN RatNeg(Degrees(deg, minutes, seconds))
        ELSE Degrees(deg, minutes, seconds)

\* lines 191-196 and 198-203: a part of the decimal split, positive with
\* the first cardinal as its last character, negated with the second
SplitComponent(part, positive, negative) ==
    LET last   == IF part = <<>> THEN "" ELSE part[Len(part)]
        number == IF last \in {positive, negative}
                  THEN float(SubSeq(part, 1, Len(part) - 1))
                  ELSE float(part)
    IN  IF IsError(number) THEN CoordinateError
        ELSE IF last = positive THEN number
        ELSE IF last = negative THEN RatNeg(number)
        ELSE number

\* lines 183-205: the decimal split "lat, lon"
DecimalSplit(coord_str) ==
    LET parts == Split(Replace(Replace(coord_str, "deg", <<>>), " ", <<>>), ",")
    IN  IF Len(parts) # 2 THEN CoordinateError
        ELSE LET lat == SplitComponent(parts[1], "N", "S")
                 lon == SplitComponent(parts[2], "E", "W")
             IN  IF IsError(lat) \/ IsError(lon) THEN CoordinateError
                 ELSE [lat |-> lat, lon |-> lon]

\* lines 177-222, on the string with the marks replaced
ParseMarked(coord_str, lat_match, lon_match) ==
    IF lat_match = None \/ lon_match = None THEN DecimalSplit(coord_str)
    ELSE LET lat == Component(lat_match, coord_str, "S")
             lon == Component(lon_match, coord_str, "W")
         IN  IF IsError(lat) \/ IsError(lon) THEN CoordinateError
             ELSE [lat |-> lat, lon |-> lon]

\* line 177: the second marks removed, the minute marks made spaces
Marked(coord_str) ==
    Replace(Replace(coord_str, "sec", <<>>), "min", <<" ">>)

\* variant: a string that cannot be parsed gives the coordinates (0, 0)
parse_coordinates_or_origin(coord_str) ==
    LET parsed == ParseMarked(Marked(coord_str),
                              Search(Marked(coord_str), {"S", "N"}),
                              Search(Marked(coord_str), {"E", "W"}))
    IN  IF IsError(parsed) THEN [lat |-> Zero, lon |-> Zero] ELSE parsed

\* WorldMapGenerator.parse_coordinates: the pair (lat, lon) or the ValueError
parse_coordinates(coord_str) ==
    ParseMarked(Marked(coord_str),
                Search(Marked(coord_str), {"S", "N"}),
                Search(Marked(coord_str), {"E", "W"}))

(* The coordinate strings explored are written from a latitude token, a   *)
(* separator, a longitude token and an ending.  A token is a record of its *)
(* degrees, degree sign, minutes, seconds and cardinal, each the characters *)
(* written for it, none for a part left out.                               *)

\* the characters of a token, the minutes followed by the minute mark and
\* the seconds by the second mark
TokenString(token) ==
    token.sign \o token.deg \o token.degree_sign
    \o token.minutes \o (IF token.minutes # <<>> THEN <<"min">> ELSE <<>>)
    \o token.seconds \o (IF token.seconds # <<>> THEN <<"sec">> ELSE <<>>)
    \o token.cardinal

\* the shapes of a token: the degrees alone or signed, decimal degrees with
\* a cardinal, with or without the degree sign or with a space after it,
\* whole degrees and minutes, and whole degrees, minutes and seconds
TokensOf(degs, mins, secs, cardinals) ==
    { [sign |-> sign, deg |-> deg, degree_sign |-> <<>>, minutes |-> <<>>,
       seconds |-> <<>>, cardinal |-> <<>>] :
         sign \in {<<>>, <<"-">>}, deg \in degs }
    \cup
    { [sign |-> <<>>, deg |-> deg, degree_sign |-> degree_sign,
       minutes |-> <<>>, seconds |-> <<>>, cardinal |-> <<cardinal>>] :
         deg \in degs, degree_sign \in {<<>>, <<"deg">>, <<"deg", " ">>},
         cardinal \in cardinals }
    \cup
    { [sign |-> <<>>, deg |-> deg, degree_sign |-> <<"deg">>,
       minutes |-> minutes, seconds |-> seconds, cardinal |-> <<cardinal>>] :
         deg \in { d \in degs : \A i \in 1..Len(d) : d[i] # "." },
         minutes \in mins, seconds \in secs \cup {<<>>},
         cardinal \in cardinals }

LatitudeTokens ==
    TokensOf({<<"4", ".", "2", "5">>, <<"8">>, <<"1", ".", "2", ".", "3">>},
             {<<"0", "1", "7">>, <<"5">>}, {<<"0", "3">>}, {"N", "S", "s"})

LongitudeTokens ==
    TokensOf({<<"7", "9", ".", "2", "3">>, <<"1", "1", "5">>},
             {<<"0", "3", "5">>}, {<<"0", "2", "1">>}, {"E", "W"})

Separators == {<<",", " ">>, <<" ">>, <<",">>}

\* nothing, or a word after the coordinates
Endings == {<<>>, <<" ", "s", "w">>}

\* the string of the call
CoordStr == args[1]

InitCoordinates == Init

\* a call of parse_coordinates(coord_str)
ParseCoordinates ==
    /\ Idle
    /\ \E lat \in LatitudeTokens, lon \in LongitudeTokens,
          separator \in Separators, ending \in Endings, swapped \in BOOLEAN :
        \E coord_str \in { IF swapped
                           THEN TokenString(lon) \o separator
                                \o TokenString(lat) \o ending
                           ELSE TokenString(lat) \o separator
                                \o TokenString(lon) \o ending } :
            /\ op' = "parse_coordinates"
            /\ args' = <<coord_str, lat, lon, separator, ending, swapped>>
            /\ ret' = parse_coordinates(coord_str)
            /\ UNCHANGED projection
            /\ UNCHANGED <<manifest_file, photo_files, _photo_info>>
            /\ UNCHANGED <<output_files, pc, written>>

NextCoordinates ==
    \/ ParseCoordinates
    \/ Return

SpecCoordinates == InitCoordinates /\ [][NextCoordinates]_vars

----------------------------------------------------------------------------
(* world_map_generator.py: floating-point numbers *)

(* A float is modelled as a signed decimal fixed-point number: a sign and a *)
(* magnitude that counts units of 10^-12, held as its limbs to the base     *)
(* 10000, the least significant first, without leading zero limbs.  Sums    *)
(* and differences are exact; products and quotients are rounded to the     *)
(* nearest unit, ties to even.                                              *)

Base == 10000

\* the limbs below the decimal point
FractionLimbs == 3

Limb(a, i) == IF i \in 1..Len(a) THEN a[i] ELSE 0

\* the magnitude without leading zero limbs
Trim(a) ==
    LET used == { i \in 1..Len(a) : a[i] # 0 }
    IN  IF used = {} THEN <<>>
        ELSE SubSeq(a, 1, CHOOSE i \in used : \A j \in used : j <= i)

Only(S) == CHOOSE x \in S : TRUE

RECURSIVE Carry(_, _, _)
\* the limbs of a number whose columns cols may exceed the base
Carry(cols, i, carry) ==
    IF i > Len(cols)
    THEN IF carry = 0 THEN <<>>
         ELSE <<carry % Base>> \o Carry(cols, i, carry \div Base)
    ELSE Only({ <<total % Base>> \o Carry(cols, i + 1, total \div Base) :
                total \in {cols[i] + carry} })

MagAdd(a, b) ==
    Trim(Carry([i \in 1..(Len(a) + Len(b)) |-> Limb(a, i) + Limb(b, i)], 1, 0))

\* -1, 0 or 1 as a is less than, equal to or greater than b
MagCmp(a, b) ==
    LET differ == { i \in 1..(Len(a) + Len(b)) : Limb(a, i) # Limb(b, i) }
    IN  IF differ = {} THEN 0
        ELSE IF \E i \in differ : /\ \A j \in differ : j <= i
                                  /\ Limb(a, i) < Limb(b, i)
             THEN -1 ELSE 1

RECURSIVE Borrow(_, _, _, _)
\* the limbs of a - b from limb i on, for a >= b
Borrow(a, b, i, borrow) ==
    IF i > Len(a) THEN <<>>
    ELSE IF a[i] - Limb(b, i) - borrow < 0
         THEN <<a[i] - Limb(b, i) - borrow + Base>> \o Borrow(a, b, i + 1, 1)
         ELSE <<a[i] - Limb(b, i) - borrow>> \o Borrow(a, b, i + 1, 0)

MagSub(a, b) == Trim(Borrow(a, b, 1, 0))

RECURSIVE ColumnSum(_, _, _, _)
\* the sum of the products of limbs that fall into column k
ColumnSum(a, b, k, i) ==
    IF i > Len(a) THEN 0
    ELSE a[i] * Limb(b, k + 1 - i) + ColumnSum(a, b, k, i + 1)

MagMul(a, b) ==
    Trim(Carry([k \in 1..(Len(a) + Len(b)) |-> ColumnSum(a, b, k, 1)], 1, 0))

\* the magnitude of a natural number
MagOfInt(n) == Trim(<<n % Base, (n \div Base) % Base, n \div (Base * Base)>>)

\* the natural number a magnitude of at most two limbs denotes
IntOfMag(a) == Limb(a, 1) + Base * Limb(a, 2)

\* the largest digit d with place * d * b <= r, for r < 10 * place * b
QuotientDigit(r, b, place) ==
    CHOOSE d \in 0..9 :
        /\ MagCmp(MagMul(MagOfInt(place * d), b), r) <= 0
        /\ MagCmp(MagMul(MagOfInt(place * (d + 1)), b), r) > 0

RECURSIVE QuotientLimb(_, _, _, _)
\* the quotient of r by b and what it leaves of r, for r < 10 * place * b,
\* digit by digit; q is the quotient of the places above
QuotientLimb(r, b, place, q) ==
    IF place = 0 THEN [q |-> q, r |-> r]
    ELSE Only({ Only({ QuotientLimb(rest, b, place \div 10, q + place * d) :
                       rest \in {MagSub(r, MagMul(MagOfInt(place * d), b))} }) :
                d \in {QuotientDigit(r, b, place)} })

RECURSIVE DivMod(_, _, _, _, _)
\* the quotient and the remainder of a by b, b # 0, limb by limb from the
\* most significant limb i down; q and r are those of the limbs above
DivMod(a, b, i, q, r) ==
    IF i = 0 THEN [q |-> Trim(q), r |-> r]
    ELSE Only({ DivMod(a, b, i - 1, <<limb.q>> \o q, limb.r) :
                limb \in {QuotientLimb(Trim(<<a[i]>> \o r), b, Base \div 10, 0)} })

\* q or q + 1, as the remainder r of a division by b rounds it, ties to even
RoundedQuotient(q, r, b) ==
    IF \/ MagCmp(MagAdd(r, r), b) > 0
       \/ MagCmp(MagAdd(r, r), b) = 0 /\ Limb(q, 1) % 2 = 1
    THEN MagAdd(q, <<1>>) ELSE q

RECURSIVE ShortDivMod(_, _, _, _, _)
\* the quotient and the remainder of a by a divisor d of one limb
ShortDivMod(a, d, i, q, r) ==
    IF i = 0 THEN [q |-> Trim(q), r |-> MagOfInt(r)]
    ELSE Only({ ShortDivMod(a, d, i - 1, <<above \div d>> \o q, above % d) :
                above \in {r * Base + a[i]} })

\* a / b rounded to the nearest integer
MagDivRound(a, b) ==
    Only({ RoundedQuotient(qr.q, qr.r, b) :
           qr \in {IF Len(b) = 1 THEN ShortDivMod(a, b[1], Len(a), <<>>, 0)
                   ELSE DivMod(a, b, Len(a), <<>>, <<>>)} })

\* a / 10^12 rounded to the nearest integer, ties to even
Rescaled(a) ==
    RoundedQuotient(SubSeq(a, FractionLimbs + 1, Len(a)),
                    Trim(SubSeq(a, 1, IF Len(a) < FractionLimbs THEN Len(a)
                                      ELSE FractionLimbs)),
                    [i \in 1..(FractionLimbs + 1) |->
                       IF i <= FractionLimbs THEN 0 ELSE 1])

\* the magnitude of 1
One == [i \in 1..(FractionLimbs + 1) |-> IF i <= FractionLimbs THEN 0 ELSE 1]

Number(neg, mag) == [neg |-> neg /\ mag # <<>>, mag |-> mag]

\* the magnitude of 10^k
PowerOfTen(k) ==
    [i \in 1..(k \div 4 + 1) |-> IF i <= k \div 4 THEN 0 ELSE 10 ^ (k % 4)]

\* the number the decimal literal n / 10^places denotes, places <= 12
Dec(n, places) ==
    Number(n < 0, MagMul(MagOfInt(IF n < 0 THEN -n ELSE n),
                         PowerOfTen(4 * FractionLimbs - places)))

FNeg(a) == Number(~a.neg, a.mag)

\* abs(a)
FAbs(a) == Number(FALSE, a.mag)

\* a + b
FAdd(a, b) ==
    IF a.neg = b.neg THEN Number(a.neg, MagAdd(a.mag, b.mag))
    ELSE IF MagCmp(a.mag, b.mag) >= 0
         THEN Number(a.neg, MagSub(a.mag, b.mag))
         ELSE Number(b.neg, MagSub(b.mag, a.mag))

\* a - b
FSub(a, b) == FAdd(a, FNeg(b))

\* a * b
FMul(a, b) == Number(a.neg # b.neg, Rescaled(MagMul(a.mag, b.mag)))

\* a / b; ZeroDivisionError for b = 0
FDiv(a, b) ==
    IF b.mag = <<>> THEN [error |-> "ZeroDivisionError"]
    ELSE IF \A i \in 1..FractionLimbs : Limb(b.mag, i) = 0
         THEN Number(a.neg # b.neg,
                     MagDivRound(a.mag, SubSeq(b.mag, FractionLimbs + 1, Len(b.mag))))
         ELSE Number(a.neg # b.neg, MagDivRound(MagMul(a.mag, One), b.mag))

\* a < b
FLess(a, b) ==
    IF a.neg # b.neg THEN a.neg
    ELSE IF a.neg THEN MagCmp(a.mag, b.mag) > 0
         ELSE MagCmp(a.mag, b.mag) < 0

\* the whole part of a, towards zero
Truncated(a) ==
    Number(a.neg, Trim([i \in 1..Len(a.mag) |->
                          IF i <= FractionLimbs THEN 0 ELSE a.mag[i]]))

\* math.floor(a)
floor(a) ==
    IF a.neg /\ Truncated(a) # a
    THEN FSub(Truncated(a), Dec(1, 0)) ELSE Truncated(a)

\* round(a): the nearest integer, ties to even
round(a) ==
    Number(a.neg, Trim([i \in 1..FractionLimbs |-> 0] \o Rescaled(a.mag)))

\* int(a), for |a| < 10^8
int(a) ==
    IF a.neg THEN -IntOfMag(SubSeq(a.mag, FractionLimbs + 1, Len(a.mag)))
    ELSE IntOfMag(SubSeq(a.mag, FractionLimbs + 1, Len(a.mag)))

----------------------------------------------------------------------------
(* world_map_generator.py: SimpleWorldProjection *)

\* Robinson projection: X scaling factors for each 5-degree latitude band
AA ==
    <<Dec(8487, 4), Dec(84751182, 8), Dec(84479598, 8), Dec(840213, 6),
      Dec(83359314, 8), Dec(8257851, 7), Dec(814752, 6), Dec(80006949, 8),
      Dec(78216192, 8), Dec(76060494, 8), Dec(73658673, 8), Dec(7086645, 7),
      Dec(67777182, 8), Dec(64475739, 8), Dec(60987582, 8), Dec(57134484, 8),
      Dec(52729731, 8), Dec(48562614, 8), Dec(45167814, 8)>>

\* Y scaling factors for each 5-degree latitude band
BB ==
    <<Dec(0, 0), Dec(838426, 7), Dec(1676852, 7), Dec(2515278, 7),
      Dec(3353704, 7), Dec(419213, 6), Dec(5030556, 7), Dec(5868982, 7),
      Dec(67182264, 8), Dec(75336633, 8), Dec(83518048, 8), Dec(91537187, 8),
      Dec(99339958, 8), Dec(106872269, 8), Dec(114066505, 8),
      Dec(120841528, 8), Dec(127035062, 8), Dec(131998003, 8), Dec(13523, 4)>>

\* math.pi, to twelve places
pi == FAdd(Dec(314159265, 8), Dec(3590, 12))

radian == FDiv(pi, Dec(180, 0))

Low_nearest(lat_abs) == FMul(round(FDiv(lat_abs, Dec(5, 0))), Dec(5, 0))

\* the lower bound of the 5-degree band of the latitude magnitude lat_abs
Low(lat_abs) ==
    IF lat_abs = Dec(0, 0) THEN Dec(0, 0)
    ELSE FMul(floor(FDiv(lat_abs, Dec(5, 0))), Dec(5, 0))

High(low) == FAdd(low, Dec(5, 0))

\* the table index of a band bound, kept within a table of length entries
BandIndex(bound, entries) ==
    IF int(FDiv(bound, Dec(5, 0))) < entries - 1
    THEN int(FDiv(bound, Dec(5, 0))) ELSE entries - 1

Ratio_from_high(lat_abs, low, high) ==
    IF high # low THEN FDiv(FSub(high, lat_abs), Dec(5, 0)) ELSE Dec(0, 0)

Ratio(lat_abs, low, high) ==
    IF high # low THEN FDiv(FSub(lat_abs, low), Dec(5, 0)) ELSE Dec(0, 0)

\* the band found for interpolation: its table indices and the ratio
BandOf(self, lat_abs, low, high) ==
    [low        |-> low,
     low_index  |-> BandIndex(low, Len(self.AA)),
     high_index |-> BandIndex(high, Len(self.AA)),
     ratio      |-> Ratio(lat_abs, low, high)]

Band(self, lat_abs) ==
    Only({ BandOf(self, lat_abs, low, High(low)) : low \in {Low(lat_abs)} })

\* the coefficient interpolated between the table entries of the band
Interpolated(table, band) ==
    FAdd(FMul(FSub(table[band.high_index + 1], table[band.low_index + 1]),
              band.ratio),
         table[band.low_index + 1])

Sign(a) == IF a.neg THEN Dec(-1, 0) ELSE Dec(1, 0)

\* the Robinson projection formula
Formula(self, lng, lat, adj_aa, adj_bb) ==
    [x |-> FMul(FMul(FMul(FMul(adj_aa, FAbs(lng)), radian), Sign(lng)),
                self.earth_rad),
     y |-> FMul(FMul(adj_bb, Sign(lat)), self.earth_rad)]

_robinson_project(self, lng, lat) ==
    Only({ Formula(self, lng, lat, Interpolated(self.AA, band),
                   Interpolated(self.BB, band)) :
           band \in {Band(self, FAbs(lat))} })

dublin_target_x(self) == FMul(Dec(53, 2), self.svg_width)
dublin_target_y(self) == FMul(Dec(18, 2), self.svg_height)
tasmania_target_x(self) == FMul(Dec(97, 2), self.svg_width)
tasmania_target_y(self) == FMul(Dec(89, 2), self.svg_height)

raw_x_range(dublin_raw, tasmania_raw) == FSub(tasmania_raw.x, dublin_raw.x)
target_x_range(self) == FSub(tasmania_target_x(self), dublin_target_x(self))
x_scale(self, dublin_raw, tasmania_raw) ==
    FDiv(target_x_range(self), raw_x_range(dublin_raw, tasmania_raw))
x_offset_unscaled(self, dublin_raw, scale) ==
    FSub(dublin_target_x(self), dublin_raw.x)
x_offset(self, dublin_raw, scale) ==
    FSub(dublin_target_x(self), FMul(dublin_raw.x, scale))

raw_y_range(dublin_raw, tasmania_raw) == FSub(tasmania_raw.y, dublin_raw.y)
target_y_range(self) == FSub(tasmania_target_y(self), dublin_target_y(self))
y_scale(self, dublin_raw, tasmania_raw) ==
    FDiv(target_y_range(self), raw_y_range(dublin_raw, tasmania_raw))
y_offset(self, dublin_raw, scale) ==
    FSub(dublin_target_y(self), FMul(dublin_raw.y, scale))

\* the projection with its linear transformation parameters
Calibrated(self, dublin_raw, scale_x, scale_y) ==
    IF IsError(scale_x) THEN scale_x
    ELSE IF IsError(scale_y) THEN scale_y
    ELSE [svg_width |-> self.svg_width, svg_height |-> self.svg_height,
          AA |-> self.AA, BB |-> self.BB, earth_rad |-> self.earth_rad,
          x_scale  |-> scale_x,
          x_offset |-> x_offset(self, dublin_raw, scale_x),
          y_scale  |-> scale_y,
          y_offset |-> y_offset(self, dublin_raw, scale_y)]

\* calibrate using Dublin (53.34, -6.27) and Tasmania (-42.02, 146.53)
_calibrate_projection(self) ==
    Only({ Only({ Calibrated(self, dublin_raw, scale_x, scale_y) :
                  scale_x \in {x_scale(self, dublin_raw, tasmania_raw)},
                  scale_y \in {y_scale(self, dublin_raw, tasmania_raw)} }) :
           dublin_raw \in {_robinson_project(self, Dec(-627, 2), Dec(5334, 2))},
           tasmania_raw \in {_robinson_project(self, Dec(14653, 2), Dec(-4202, 2))} })

\* SimpleWorldProjection(): __init__
SimpleWorldProjection ==
    _calibrate_projection([svg_width |-> Dec(1800, 0),
                           svg_height |-> Dec(857, 0),
                           AA |-> AA, BB |-> BB, earth_rad |-> Dec(1, 0)])

\* round(value * 100) / 100
Rounded(value) == FDiv(round(FMul(value, Dec(100, 0))), Dec(100, 0))

\* the calibrated linear transformation to SVG coordinates
Transformed(self, robinson) ==
    [x |-> Rounded(FAdd(FMul(robinson.x, self.x_scale), self.x_offset)),
     y |-> Rounded(FAdd(FMul(robinson.y, self.y_scale), self.y_offset))]

project(self, lat, lng) == Transformed(self, _robinson_project(self, lng, lat))

(* The calls of the projection explored *)

\* where in a 5-degree band the latitudes explored lie, in hundredths of a
\* degree: on the lower bound, just above it, in the middle, just below the
\* upper bound
BandOffsets == {0, 1, 250, 499}

\* the bands explored: 0..17 hold the latitudes up to 90 degrees, band 18
\* starts at 90 degrees and band 19 at 95
Bands == 0..19

\* the latitude magnitudes explored, in hundredths of a degree: those of
\* the bands, the two reference points and 1000 degrees
LatitudeHundredths ==
    { 500 * k + offset : k \in Bands, offset \in BandOffsets }
    \cup {5334, 4202, 100000}

Latitudes ==
    { Dec(sign * n, 2) : n \in LatitudeHundredths, sign \in {1, -1} }

Longitudes == { Dec(n, 2) : n \in {0, -627, 14653, 1000, -18000, 18000} }

\* a call of _robinson_project(lng, lat)
RobinsonProject ==
    /\ Idle
    /\ \E lng \in Longitudes, lat \in Latitudes :
        /\ op' = "_robinson_project"
        /\ args' = <<lng, lat>>
        /\ ret' = _robinson_project(projection, lng, lat)
        /\ UNCHANGED projection
        /\ UNCHANGED <<manifest_file, photo_files, _photo_info>>
        /\ UNCHANGED <<output_files, pc, written>>

\* a call of project(lat, lng)
Project ==
    /\ Idle
    /\ \E lat \in Latitudes, lng \in Longitudes :
        /\ op' = "project"
        /\ args' = <<lat, lng>>
        /\ ret' = project(projection, lat, lng)
        /\ UNCHANGED projection
        /\ UNCHANGED <<manifest_file, photo_files, _photo_info>>
        /\ UNCHANGED <<output_files, pc, written>>

\* a WorldMapGenerator has been constructed, and its projection with it
InitProjection ==
    /\ op = "idle"
    /\ args = <<>>
    /\ ret = None
    /\ manifest_file = [exists |-> FALSE]
    /\ photo_files = {}
    /\ _photo_info = [set |-> FALSE]
    /\ output_files = {}
    /\ pc = "none"
    /\ written = <<>>
    /\ projection = SimpleWorldProjection

NextProjection ==
    \/ RobinsonProject
    \/ Project
    \/ Return

SpecProjection == InitProjection /\ [][NextProjection]_vars

----------------------------------------------------------------------------
(* world_map_generator.py: WorldMapGenerator.generate_world_map_svg *)

\* the float of the number parse_coordinates computed
FloatOf(rat) == FDiv(Dec(rat.num, 0), Dec(rat.den, 0))

\* location_data.get('coordinates', '0degN, 0degE')
CoordinatesOf(location_data) ==
    IF "coordinates" \in DOMAIN location_data THEN location_data.coordinates
    ELSE <<"0", "deg", "N", ",", " ", "0", "deg", "E">>

\* lines 300-305: the coordinates parsed, (0, 0) where parse_coordinates
\* raises the ValueError
ParsedOrDefault(parsed) ==
    IF IsError(parsed) THEN [lat |-> Dec(0, 0), lon |-> Dec(0, 0)]
    ELSE [lat |-> FloatOf(parsed.lat), lon |-> FloatOf(parsed.lon)]

\* _load_world_svg_content: the inner content of data/world.svg, the
\* fallback content where the file is missing
_load_world_svg_content(world_svg_exists) ==
    IF world_svg_exists THEN "world.svg" ELSE "fallback"

\* the marker drawn for a location: its circles are centred at the
\* projected point, and its comment names the coordinates
generate_location_marker(self, lat, lon) ==
    [at |-> project(self, lat, lon), lat |-> lat, lon |-> lon]

\* the SVG built from the world map content and the marker
WorldMapSvg(self, location, world_svg_exists, width, height) ==
    [width |-> width, height |-> height, viewBox |-> <<200, 0, 1800, 857>>,
     world_content |-> _load_world_svg_content(world_svg_exists),
     marker |-> generate_location_marker(self, location.lat, location.lon)]

generate_world_map_svg(self, location_data, world_svg_exists, width, height) ==
    WorldMapSvg(self, ParsedOrDefault(parse_coordinates(CoordinatesOf(location_data))), world_svg_exists, width, height)

\* calendar_generator.py, _generate_world_map_content: the inner elements
\* of the SVG of the world map generator
InnerContent(full_svg) ==
    [world_content |-> full_svg.world_content, marker |-> full_svg.marker]

_generate_world_map_content(self, location_data, world_svg_exists) ==
    InnerContent(generate_world_map_svg(self, location_data, world_svg_exists, 400, 200))

(* The calls of the world map explored *)

\* the location data of a README.md explored: a location and a coordinate
\* string of a latitude and a longitude token
ReadmeLocations ==
    { [location |-> "place", coordinates |-> TokenString(lat) \o separator \o TokenString(lon)] : lat \in LatitudeTokens, lon \in LongitudeTokens, separator \in Separators }

\* the location data explored: those of a README.md, and one without
\* coordinates
LocationData == ReadmeLocations \cup {[location |-> "place"]}

\* a call of generate_world_map_svg(location_data)
GenerateWorldMapSvg ==
    /\ Idle
    /\ \E location_data \in LocationData, world_svg_exists \in BOOLEAN :
        /\ op' = "generate_world_map_svg"
        /\ args' = <<location_data, world_svg_exists>>
        /\ ret' = generate_world_map_svg(projection, location_data, world_svg_exists, 400, 200)
        /\ UNCHANGED projection
        /\ UNCHANGED <<manifest_file, photo_files, _photo_info>>
        /\ UNCHANGED <<output_files, pc, written>>

\* generate_month_data, lines 650-651: the world map of the month's page
GenerateWorldMapContent ==
    /\ Idle
    /\ \E location_data \in ReadmeLocations, world_svg_exists \in BOOLEAN :
        /\ op' = "_generate_world_map_content"
        /\ args' = <<location_data, world_svg_exists>>
        /\ ret' = _generate_world_map_content(projection, location_data, world_svg_exists)
        /\ UNCHANGED projection
        /\ UNCHANGED <<manifest_file, photo_files, _photo_info>>
        /\ UNCHANGED <<output_files, pc, written>>

NextWorldMap ==
    \/ GenerateWorldMapSvg
    \/ GenerateWorldMapContent
    \/ Return

SpecWorldMap == InitProjection /\ [][NextWorldMap]_vars

----------------------------------------------------------------------------
(* Properties of the week calculator *)

\* the result held by the caller is a month grid
GridReturned == op = "generate_calendar_grid" /\ ~IsError(ret)

\* the cells of a grid, as the set of <<row, column>> positions
Positions(grid) == { <<i, j>> : i \in 1..Len(grid.weeks), j \in 1..7 }

CellAt(grid, pos) == grid.weeks[pos[1]].dates[pos[2]]

\* ISO 8601, stated on the Thursday of the date's Monday-to-Sunday week: the
\* ISO year is the calendar year of that Thursday and the week number counts
\* the Thursdays of that year up to it
IsoReference(date) ==
    LET thursday == (date - weekday(date)) + 3
        iso_year == YearOf(thursday)
    IN  <<iso_year, ((thursday - _ymd2ord(iso_year, 1, 1)) \div 7) + 1>>

\* C1: get_iso_week(d) is the ISO 8601 (iso_year, week) of d: the year of the
\* Thursday of d's week and that Thursday's rank in its year; the week is 1
\* exactly when d's week contains January 4th of iso_year; 2026-01-01 and
\* 2025-12-29 both give (2026, 1).
C1_IsoWeekIsIso8601 ==
    op = "get_iso_week" =>
        LET d      == args[1]
            monday == d - weekday(d)
            jan4   == _ymd2ord(ret[1], 1, 4)
        IN  /\ ret = IsoReference(d)
            /\ (ret[2] = 1) <=> (monday <= jan4 /\ jan4 <= monday + 6)
            /\ ret[2] \in 1..53
            /\ d \in {_ymd2ord(2026, 1, 1), _ymd2ord(2025, 12, 29)}
                 => ret = <<2026, 1>>

\* C1 witness: 2025-12-29 was looked up and lies in week 1 of ISO year 2026
C1_Witness ==
    /\ op = "get_iso_week"
    /\ args = <<_ymd2ord(2025, 12, 29)>>
    /\ YearOf(args[1]) = 2025
    /\ ret = <<2026, 1>>

\* get_iso_week of every explored date, tabulated
IsoWeekOfDate == [d \in Dates |-> get_iso_week(d)]

\* C2: round trip: the Monday returned for (y, w) is on or before every date
\* d with get_iso_week(d) = (y, w), and at most 6 days before it.
C2_RoundTrip ==
    op = "get_week_start_date" =>
        \A d \in Dates :
            IsoWeekOfDate[d] = <<args[1], args[2]>>
                => (ret <= d /\ d - ret <= 6)

\* C2 witness: the Monday of (2026, 1) is 2025-12-29, and dates of both
\* calendar years map to that week
C2_Witness ==
    /\ op = "get_week_start_date"
    /\ args = <<2026, 1>>
    /\ ret = _ymd2ord(2025, 12, 29)
    /\ get_iso_week(_ymd2ord(2025, 12, 31)) = <<2026, 1>>
    /\ get_iso_week(_ymd2ord(2026, 1, 4)) = <<2026, 1>>

\* C3: the cells flagged in_current_month are exactly the calendar days of
\* the month: each day 1..days_in_month is the date of exactly one such
\* cell, and every such cell carries a date of that year and month.
C3_CurrentCellsAreTheMonth ==
    GridReturned =>
        LET year    == args[1]
            month   == args[2]
            current == { p \in Positions(ret) : CellAt(ret, p).in_current_month }
        IN  /\ \A day \in 1.._days_in_month(year, month) :
                 Cardinality({ p \in current :
                     CellAt(ret, p).date = _ymd2ord(year, month, day) }) = 1
            /\ \A p \in current :
                 /\ YearOf(CellAt(ret, p).date) = year
                 /\ MonthOf(CellAt(ret, p).date) = month
                 /\ CellAt(ret, p).day = DayOf(CellAt(ret, p).date)
            /\ Cardinality(current) = _days_in_month(year, month)

\* C3 witness: the grid of leap February 2024 with its 29 current cells
C3_Witness ==
    /\ GridReturned
    /\ args = <<2024, 2>>
    /\ Cardinality({ p \in Positions(ret) : CellAt(ret, p).in_current_month }) = 29

\* C4: a grid has 4, 5 or 6 week rows, rows_needed is 4, 5 or 6, and every
\* week row holds exactly 7 day cells.
C4_RowsAndCells ==
    GridReturned =>
        /\ ret.total_weeks \in {4, 5, 6}
        /\ Len(ret.weeks) = ret.total_weeks
        /\ ret.layout.rows_needed \in {4, 5, 6}
        /\ \A i \in 1..Len(ret.weeks) :
             DOMAIN ret.weeks[i].dates = 1..7

\* C4 witness: February 2027 starts on a Monday and fills exactly 4 rows
C4_Witness ==
    /\ GridReturned
    /\ args = <<2027, 2>>
    /\ ret.total_weeks = 4
    /\ ret.layout.rows_needed = 4

\* C5: rows_needed of the layout equals the number of week rows emitted.
C5_RowsNeededIsTotalWeeks ==
    GridReturned =>
        /\ ret.layout.rows_needed = ret.total_weeks
        /\ ret.layout.rows_needed = Len(ret.weeks)

\* C5 witness: August 2026 starts on a Saturday and needs 6 rows
C5_Witness ==
    /\ GridReturned
    /\ args = <<2026, 8>>
    /\ ret.layout.first_weekday = 5
    /\ ret.layout.rows_needed = 6
    /\ Len(ret.weeks) = 6

\* C6: every cell has exactly one membership: in_current_month iff its date
\* lies in [first day, last day], is_previous_month iff it is before the
\* first day, is_next_month iff it is after the last day.
C6_ExactlyOneMembership ==
    GridReturned =>
        LET first == _ymd2ord(args[1], args[2], 1)
            last  == _ymd2ord(args[1], args[2], _days_in_month(args[1], args[2]))
        IN  \A p \in Positions(ret) :
                LET c == CellAt(ret, p)
                IN  /\ c.in_current_month  <=> (first <= c.date /\ c.date <= last)
                    /\ c.is_previous_month <=> (c.date < first)
                    /\ c.is_next_month     <=> (c.date > last)
                    /\ Cardinality({ f \in {"cur", "prev", "next"} :
                         \/ f = "cur"  /\ c.in_current_month
                         \/ f = "prev" /\ c.is_previous_month
                         \/ f = "next" /\ c.is_next_month }) = 1

\* C6 witness: January 2026 shows days of December 2025 and of February 2026
C6_Witness ==
    /\ GridReturned
    /\ args = <<2026, 1>>
    /\ \E p \in Positions(ret) :
         CellAt(ret, p).is_previous_month /\ YearOf(CellAt(ret, p).date) = 2025
    /\ \E p \in Positions(ret) : CellAt(ret, p).is_next_month
    /\ \E p \in Positions(ret) : CellAt(ret, p).in_current_month

\* C7: read row by row the cells are the consecutive dates from the Monday
\* on or before the first day to the Sunday on or after the last day; the
\* PREVIOUS cells are the first weekday(first day) cells of the first row,
\* the NEXT cells the last 6 - weekday(last day) cells of the last row, and
\* every row has a CURRENT cell; February 2026 has 28 CURRENT cells and a
\* NEXT cell in its last row.
C7_ConsecutiveMondayToSunday ==
    GridReturned =>
        LET first == _ymd2ord(args[1], args[2], 1)
            last  == _ymd2ord(args[1], args[2], _days_in_month(args[1], args[2]))
            rows  == Len(ret.weeks)
            start == CellAt(ret, <<1, 1>>).date
            end   == CellAt(ret, <<rows, 7>>).date
        IN  /\ weekday(start) = 0 /\ start <= first /\ first - start <= 6
            /\ weekday(end) = 6 /\ last <= end /\ end - last <= 6
            /\ \A p \in Positions(ret) :
                 CellAt(ret, p).date = start + 7 * (p[1] - 1) + (p[2] - 1)
            /\ { p \in Positions(ret) : CellAt(ret, p).is_previous_month }
                 = { <<1, j>> : j \in 1..weekday(first) }
            /\ { p \in Positions(ret) : CellAt(ret, p).is_next_month }
                 = { <<rows, j>> : j \in (weekday(last) + 2)..7 }
            /\ \A i \in 1..rows :
                 \E j \in 1..7 : CellAt(ret, <<i, j>>).in_current_month
            /\ args = <<2026, 2>> =>
                 /\ Cardinality({ p \in Positions(ret) :
                        CellAt(ret, p).in_current_month }) = 28
                 /\ \E j \in 1..7 : CellAt(ret, <<rows, j>>).is_next_month

\* C7 witness: February 2026 starts on a Sunday; its last row ends on March 1st
C7_Witness ==
    /\ GridReturned
    /\ args = <<2026, 2>>
    /\ weekday(_ymd2ord(2026, 2, 1)) = 6
    /\ CellAt(ret, <<Len(ret.weeks), 7>>).date = _ymd2ord(2026, 3, 1)
    /\ CellAt(ret, <<Len(ret.weeks), 7>>).is_next_month

\* C8: each week row's (iso_year, week_number) is get_iso_week of the row's
\* Thursday (row Monday + 3) and equals get_iso_week(d) for each of the 7
\* dates d of the row, also where iso_year differs from the grid's year.
C8_RowIsoWeek ==
    GridReturned =>
        \A i \in 1..Len(ret.weeks) :
            LET w == ret.weeks[i]
            IN  /\ <<w.iso_year, w.week_number>> = get_iso_week(w.week_start + 3)
                /\ w.week_start = w.dates[1].date
                /\ \A j \in 1..7 :
                     get_iso_week(w.dates[j].date) = <<w.iso_year, w.week_number>>

\* C8 witness: the first row of January 2027 belongs to week 53 of ISO year 2026
C8_Witness ==
    /\ GridReturned
    /\ args = <<2027, 1>>
    /\ ret.weeks[1].iso_year = 2026
    /\ ret.weeks[1].week_number = 53
    /\ ret.weeks[1].dates[5].date = _ymd2ord(2027, 1, 1)

----------------------------------------------------------------------------
(* Properties of the photo lookup *)

\* the entries of the manifest on disk for month_key, in file order: the
\* filenames of the data lines that carry this key and a filename
ManifestEntries(month_key) ==
    IF ~manifest_file.exists THEN <<>>
    ELSE LET listed == SelectSeq(Tail(manifest_file.lines),
                           LAMBDA parts : /\ Len(parts) >= 2
                                          /\ parts[1] = month_key
                                          /\ parts[2] # <<>>)
         IN  [i \in 1..Len(listed) |-> listed[i][2]]

\* the file of entry filename is in one of the directories photo_dirs
InPhotoDirs(filename, photo_dirs) ==
    \E i \in 1..Len(photo_dirs) :
        [dir |-> photo_dirs[i], web |-> FALSE, name |-> filename] \in photo_files

\* C9: find_photo_for_date assigns by ordinal only.  For a date with day of
\* month d, the result is None when the date's month key YYYYMM has no
\* entries in the manifest or d exceeds their number; and when the file named
\* by the entry at 0-based index d - 1 of the month's ordered list exists in
\* the photo directories, the photo returned is that file (an existing path
\* of that name in one of the directories searched).
C9_OrdinalLookup ==
    op = "find_photo_for_date" =>
        LET target_date == args[1]
            photo_dirs  == args[2]
            d           == DayOf(target_date)
            entries     == ManifestEntries(MonthKey(YearOf(target_date),
                                                    MonthOf(target_date)))
        IN  /\ d > Len(entries) => ret = None
            /\ (d <= Len(entries) /\ InPhotoDirs(entries[d], photo_dirs)) =>
                  /\ ret # None
                  /\ ret.path.name = entries[d]
                  /\ ret.path \in photo_files
                  /\ \E i \in 1..Len(photo_dirs) : ret.path.dir = photo_dirs[i]

\* C9 witness: a lookup for a day after the first returns the file of the
\* manifest entry of that ordinal, in a manifest where a line without a
\* filename precedes the month's entries
C9_Witness ==
    /\ op = "find_photo_for_date"
    /\ DayOf(args[1]) > 1
    /\ ret # None
    /\ \E i \in 2..Len(manifest_file.lines) :
          /\ manifest_file.lines[i][2] = <<>>
          /\ manifest_file.lines[i][1] = MonthKey(YearOf(args[1]), MonthOf(args[1]))
    /\ ret.path.name = ManifestEntries(MonthKey(YearOf(args[1]),
                                                MonthOf(args[1])))[DayOf(args[1])]

\* the days in S in ascending order
DaysInOrder(S, days_in_month) ==
    SelectSeq([d \in 1..days_in_month |-> d], LAMBDA d : d \in S)

\* the dates of the listed days of (year, month) as strftime('%Y-%m-%d') fields
DatesListed(days, year, month) ==
    [i \in 1..Len(days) |->
        <<DecDigits(year), <<month \div 10, month % 10>>,
          <<days[i] \div 10, days[i] % 10>>>>]

\* a call of generate_month_data has returned or raised, its location loaded
MonthScanned ==
    op = "generate_month_data" /\ args[3] = "ok"

\* the directories a call of generate_month_data searches for the month's days
SearchedDirs ==
    IF args[4] = <<>>
    THEN <<[year |-> args[1], month |-> args[2], processed |-> FALSE],
           [year |-> args[1], month |-> args[2], processed |-> TRUE]>>
    ELSE args[4]

\* the lookup of entry filename finds a file: the photo in one of the searched
\* directories, or its web thumbnail when thumbnails are preferred
LookupFinds(filename) ==
    \/ InPhotoDirs(filename, SearchedDirs)
    \/ /\ args[6] /\ ~args[5]
       /\ \E i \in 1..Len(SearchedDirs) :
            [dir |-> SearchedDirs[i], web |-> TRUE, name |-> filename]
                \in photo_files

\* C10 as stated: when the manifest has k < days_in_month entries for the
\* primary month (and the month's location loads), generate_month_data raises
\* one error whose missing list is exactly the dates of days
\* k+1..days_in_month in date order, never listing a covered day.
C10_MissingIsExactlyTheUncoveredDays ==
    MonthScanned =>
        LET year == args[1]
            month == args[2]
            days_in_month == _days_in_month(year, month)
            k == Len(ManifestEntries(MonthKey(year, month)))
        IN  k < days_in_month =>
              /\ IsError(ret)
              /\ ret.what = "missing photos"
              /\ ret.missing = DatesListed(DaysInOrder((k + 1)..days_in_month,
                                                       days_in_month),
                                           year, month)

\* C10, amended: when the month's location loads, generate_month_data scans
\* every cell before failing: it raises one missing-photo error exactly when
\* some day of the primary month has no photo, and the missing list is then,
\* in date order and one entry per day, exactly the dates of the days whose
\* lookup finds nothing: every day after the k manifest entries of the month
\* and every day up to k whose listed file is in none of the searched
\* directories.  With k < days_in_month the error is always raised and lists
\* all of k+1..days_in_month.  When the location does not load, the location
\* error is raised instead.
C10_BatchReporting ==
    op = "generate_month_data" =>
        LET year == args[1]
            month == args[2]
            days_in_month == _days_in_month(year, month)
            entries == ManifestEntries(MonthKey(year, month))
            k == Len(entries)
            without == { d \in 1..days_in_month :
                            d > k \/ ~LookupFinds(entries[d]) }
        IN  IF args[3] # "ok"
            THEN IsError(ret) /\ ret.what = "location"
            ELSE /\ IsError(ret) <=> without # {}
                 /\ k < days_in_month => IsError(ret)
                 /\ IsError(ret) =>
                      /\ ret.what = "missing photos"
                      /\ ret.missing = DatesListed(
                             DaysInOrder(without, days_in_month), year, month)
                      /\ \A d \in (k + 1)..days_in_month : d \in without

\* C10 witness: a month listed with some but too few entries, all their
\* files present: the error lists the several days after the last entry
C10_Witness ==
    /\ MonthScanned
    /\ IsError(ret)
    /\ ret.what = "missing photos"
    /\ Len(ret.missing) >= 2
    /\ Len(ManifestEntries(MonthKey(args[1], args[2]))) >= 1
    /\ Len(ret.missing) + Len(ManifestEntries(MonthKey(args[1], args[2])))
          = _days_in_month(args[1], args[2])

\* every day of the primary month of a generate_month_data call has a
\* manifest entry whose lookup finds a file
EveryCurrentDayHasPhoto ==
    LET entries == ManifestEntries(MonthKey(args[1], args[2]))
    IN  \A d \in 1.._days_in_month(args[1], args[2]) :
            d <= Len(entries) /\ LookupFinds(entries[d])

\* the cells of the data returned by generate_month_data, with their paths
ReturnedCells ==
    { ret.weeks[i].dates[j] : i \in 1..Len(ret.weeks), j \in 1..7 }

\* the manifest has no entry for the date of a cell
NoEntryFor(date) ==
    DayOf(date) > Len(ManifestEntries(MonthKey(YearOf(date), MonthOf(date))))

----------------------------------------------------------------------------
(* Properties of the month build *)

\* a run of build_month has ended with the missing-photo failure of
\* generate_month_data
BuildFailedOnMissingPhotos ==
    /\ op = "build_month"
    /\ pc = "done"
    /\ ~ret.success
    /\ ret.cause # None
    /\ ret.cause.what = "missing photos"

\* C12: a build of a month that has a missing photo for a CURRENT cell of the
\* primary month aborts before any output artifact is produced: when the
\* missing-photo failure is raised, the run has written no file (HTML page,
\* QR code, map SVG, thumbnail, PDF).
C12_NoArtifactBeforeFailure ==
    BuildFailedOnMissingPhotos => written = <<>>

----------------------------------------------------------------------------
(* Properties of repeated lookups *)

\* C13: photo assignment is idempotent: two find_photo_for_date calls with
\* the same manifest, the same photo directories and the same date return
\* the same result, whatever was looked up before the first call and between
\* the two calls.
C13_LookupIsIdempotent ==
    op = "find_photo_for_date, repeated" => ret[3] = ret[1]

\* C13 witness: the second lookup of a date returns the photo of the first
\* lookup although a lookup of another date, with another result, came between
C13_Witness ==
    /\ op = "find_photo_for_date, repeated"
    /\ args[2] # args[1]
    /\ ret[1] # None
    /\ ret[2] # None
    /\ ret[2] # ret[1]
    /\ ret[3] = ret[1]

----------------------------------------------------------------------------
(* Properties of the perpetual calendar *)

\* the result held by the caller is the data of a perpetual month
PerpetualReturned == op = "generate_perpetual_month_data" /\ ~IsError(ret)

\* the arguments of the perpetual call
PerpetualMonth == args[1]
SourceYear     == args[2]

RECURSIVE RowByRow(_)
\* the cells of a list of weeks, read row by row
RowByRow(weeks) ==
    IF weeks = <<>> THEN <<>>
    ELSE Head(weeks).dates \o RowByRow(Tail(weeks))

\* the cells that hold a day (the empty cells are not of the month), in
\* reading order
DayCells(weeks) ==
    SelectSeq(RowByRow(weeks), LAMBDA day_info : day_info.is_current_month)

\* C14: in the data of a perpetual month, days_in_month is the calendar
\* length of the month in the source year for every month but February and
\* is 29 for February whether the source year is a leap year or not, and
\* the grid holds exactly that many cells that are not empty.
C14_PerpetualDaysInMonth ==
    PerpetualReturned =>
        /\ ret.layout.days_in_month =
              IF PerpetualMonth = 2 THEN 29
              ELSE _days_in_month(SourceYear, PerpetualMonth)
        /\ Len(DayCells(ret.weeks)) = ret.layout.days_in_month

\* C14 witness: a February of a source year that is not a leap year is
\* returned with 29 day cells
C14_Witness ==
    /\ PerpetualReturned
    /\ PerpetualMonth = 2
    /\ ~isleap(SourceYear)
    /\ Len(DayCells(ret.weeks)) = 29

\* C15: in the data of a perpetual month, columns is 7 exactly when
\* days_in_month is 31 and 6 otherwise, rows_needed is 5, five week rows
\* are emitted whatever the month, and every row has exactly "columns"
\* cells.
C15_PerpetualGridShape ==
    PerpetualReturned =>
        /\ ret.layout.columns = 7 <=> ret.layout.days_in_month = 31
        /\ ret.layout.columns \in {6, 7}
        /\ ret.layout.rows_needed = 5
        /\ Len(ret.weeks) = 5
        /\ \A i \in 1..Len(ret.weeks) :
              Len(ret.weeks[i].dates) = ret.layout.columns

\* C15 witness: a month of 31 days is returned in five rows of seven
\* columns, the fifth row filled with empty cells
C15_Witness ==
    /\ PerpetualReturned
    /\ ret.layout.days_in_month = 31
    /\ ret.layout.columns = 7
    /\ Len(ret.weeks) = 5
    /\ ~ret.weeks[5].dates[7].is_current_month

\* C16: the cells of the data of a perpetual month, read row by row, are
\* the days 1, 2, ..., days_in_month in increasing order and after them
\* empty cells only; the empty cells are at the end of the last row, and no
\* cell is marked as of the previous or of the next month.
C16_PerpetualDayOrder ==
    PerpetualReturned =>
        LET cells == RowByRow(ret.weeks)
            days_in_month == ret.layout.days_in_month
        IN  /\ Len(cells) >= days_in_month
            /\ \A i \in 1..Len(cells) :
                  /\ i <= days_in_month =>
                        cells[i].is_current_month /\ cells[i].day = i
                  /\ i > days_in_month =>
                        ~cells[i].is_current_month /\ cells[i].date = None
                  /\ ~cells[i].is_previous_month
                  /\ ~cells[i].is_next_month
            /\ \A w \in 1..(Len(ret.weeks) - 1) :
                  \A j \in 1..Len(ret.weeks[w].dates) :
                      ret.weeks[w].dates[j].is_current_month
            /\ ret.weeks[Len(ret.weeks)].dates[1].is_current_month

\* C16 witness: a February is returned whose last row holds the days 25 to
\* 29 and one empty cell
C16_Witness ==
    /\ PerpetualReturned
    /\ PerpetualMonth = 2
    /\ ret.weeks[5].dates[5].is_current_month
    /\ ret.weeks[5].dates[5].day = 29
    /\ ~ret.weeks[5].dates[6].is_current_month

\* a perpetual February of a source year that is not a leap year, called
\* with a location README that loads, so that the days are looked up
LeapDayCase ==
    /\ op = "generate_perpetual_month_data"
    /\ args[3] = "ok"
    /\ PerpetualMonth = 2
    /\ ~isleap(SourceYear)

\* the call failed on missing photos and reports day 29 among them
LeapDayReported ==
    /\ IsError(ret)
    /\ ret.what = "missing photos"
    /\ \E i \in 1..Len(ret.missing) : ret.missing[i][3] = Pad2(29)

\* the directories a perpetual call searches
PerpetualSearchedDirs ==
    IF args[4] = <<>>
    THEN <<[year |-> SourceYear, month |-> PerpetualMonth, processed |-> FALSE],
           [year |-> SourceYear, month |-> PerpetualMonth, processed |-> TRUE]>>
    ELSE args[4]

\* the lookup of entry filename finds a file: the photo in one of the
\* searched directories, or its web thumbnail when thumbnails are preferred
PerpetualLookupFinds(filename) ==
    \/ InPhotoDirs(filename, PerpetualSearchedDirs)
    \/ /\ args[6] /\ ~args[5]
       /\ \E i \in 1..Len(PerpetualSearchedDirs) :
            [dir |-> PerpetualSearchedDirs[i], web |-> TRUE, name |-> filename]
                \in photo_files

\* C17 as stated: in a perpetual February of a source year that is not a
\* leap year, the lookup of the day-29 cell succeeds whenever the manifest
\* lists at least 29 entries under the key of the source year's February.
C17_LeapDayFoundWheneverListed ==
    LeapDayCase =>
        (Len(ManifestEntries(MonthKey(SourceYear, 2))) >= 29
            => ~LeapDayReported)

\* C17, amended: in a perpetual February of a source year that is not a
\* leap year, the photo of the day-29 cell is the file named by the entry at
\* 0-based index 28 of the list under the key "{source_year}02"; the lookup
\* succeeds exactly when that list has at least 29 entries and the file of
\* the 29th is in the directories searched, whatever is listed under the
\* key of another year's February.
C17_LeapDayLookup ==
    LeapDayCase =>
        LET entries == ManifestEntries(MonthKey(SourceYear, 2))
        IN  /\ ~LeapDayReported <=>
                  /\ Len(entries) >= 29
                  /\ PerpetualLookupFinds(entries[29])
            /\ PerpetualReturned =>
                  /\ ret.weeks[5].dates[5].day = 29
                  /\ ret.weeks[5].dates[5].image_path # None
                  /\ ret.weeks[5].dates[5].image_path.path.name = entries[29]
                  /\ ret.weeks[5].dates[5].image_path.path \in photo_files

\* C17 witness: a February of a source year that is not a leap year is
\* returned, its day-29 cell holding the 29th photo of the source year's
\* February, while no February of 2024 is listed
C17_Witness ==
    /\ LeapDayCase
    /\ PerpetualReturned
    /\ ManifestEntries(MonthKey(2024, 2)) = <<>>
    /\ ret.weeks[5].dates[5].image_path # None
    /\ ret.weeks[5].dates[5].image_path.path.name =
          ManifestEntries(MonthKey(SourceYear, 2))[29]

\* the observation ids the manifest on disk lists for month_key, in file
\* order: those of the data lines that carry this key, a filename and an id
ManifestObservations(month_key) ==
    IF ~manifest_file.exists THEN <<>>
    ELSE LET listed == SelectSeq(Tail(manifest_file.lines),
                           LAMBDA parts : /\ Len(parts) >= 3
                                          /\ parts[1] = month_key
                                          /\ parts[2] # <<>>
                                          /\ parts[3] # <<>>
                                          /\ parts[3] # <<0>>)
         IN  [i \in 1..Len(listed) |-> listed[i][3]]

\* C18: in a perpetual February of a source year that is not a leap year,
\* nothing derived for the day-29 cell is keyed to a calendar year other
\* than the source year: not the date of the cell, not its entry in the
\* report of missing photos, and not the key its observation id is looked
\* up with (the cell carries the observation id listed with the 29th photo
\* of the source year's February, if it carries one).
C18_LeapDayKeyedToSourceYear ==
    LeapDayCase =>
        /\ PerpetualReturned =>
              /\ YearOf(ret.weeks[5].dates[5].date) = SourceYear
              /\ ret.weeks[5].dates[5].observation_id \in
                    {<<>>, ManifestObservations(MonthKey(SourceYear, 2))[29]}
        /\ LeapDayReported =>
              \A i \in 1..Len(ret.missing) :
                  ret.missing[i][1] = Pad4(SourceYear)

----------------------------------------------------------------------------
(* Properties of the coordinate parser *)

\* the caller holds the result of parse_coordinates
CoordinatesParsed == op = "parse_coordinates"

\* the tokens the string of the call was written from
LatToken  == args[2]
LonToken  == args[3]
Separator == args[4]
Ending    == args[5]
Swapped   == args[6]

\* a decimal number: digits with at most one point among them
IsNumeral(chars) ==
    /\ \A i \in 1..Len(chars) : chars[i] \in Digit \cup {"."}
    /\ \E i \in 1..Len(chars) : chars[i] \in Digit
    /\ Cardinality({ i \in 1..Len(chars) : chars[i] = "." }) <= 1

\* a number of whole digits
IsWhole(chars) ==
    chars # <<>> /\ \A i \in 1..Len(chars) : chars[i] \in Digit

\* a token of decimal degrees with a cardinal suffix, as in "4.25degS",
\* with or without the degree sign
DecimalToken(token, cardinals) ==
    /\ token.sign = <<>>
    /\ IsNumeral(token.deg)
    /\ token.degree_sign \in {<<>>, <<"deg">>, <<"deg", " ">>}
    /\ token.minutes = <<>> /\ token.seconds = <<>>
    /\ Len(token.cardinal) = 1 /\ token.cardinal[1] \in cardinals

\* a token of degrees, minutes and seconds with their marks and a cardinal,
\* as in "8deg017min03secS"
DmsToken(token, cardinals) ==
    /\ token.sign = <<>>
    /\ IsWhole(token.deg)
    /\ token.degree_sign = <<"deg">>
    /\ IsWhole(token.minutes) /\ IsWhole(token.seconds)
    /\ Len(token.cardinal) = 1 /\ token.cardinal[1] \in cardinals

\* the first family of strings: a pair of decimal degrees with cardinal
\* suffixes, latitude first, a comma between them
DecimalFamily ==
    /\ DecimalToken(LatToken, {"N", "S"})
    /\ DecimalToken(LonToken, {"E", "W"})
    /\ Separator \in {<<",", " ">>, <<",">>}
    /\ Ending = <<>> /\ ~Swapped

\* the second family: degrees, minutes and seconds with their marks,
\* latitude first
DmsFamily ==
    /\ DmsToken(LatToken, {"N", "S"})
    /\ DmsToken(LonToken, {"E", "W"})
    /\ Ending = <<>> /\ ~Swapped

\* a hundred times the number a numeral of at most two decimals denotes
Hundredths(numeral) ==
    LET points == { i \in 1..Len(numeral) : numeral[i] = "." }
        point  == IF points = {} THEN Len(numeral) + 1
                  ELSE CHOOSE i \in points : TRUE
        whole  == SubSeq(numeral, 1, point - 1)
        tenths == IF point + 1 <= Len(numeral)
                  THEN DigitValue(numeral[point + 1]) ELSE 0
        hundredths == IF point + 2 <= Len(numeral)
                      THEN DigitValue(numeral[point + 2]) ELSE 0
    IN  100 * DigitsValue(whole) + 10 * tenths + hundredths

\* degrees + minutes/60 + seconds/3600 of a token, in hundredths of a
\* second of arc
TokenMagnitude(token) ==
    3600 * Hundredths(token.deg)
    + 6000 * DigitsValue(token.minutes)
    + 100 * DigitsValue(token.seconds)

\* the rational value is n hundredths of a second of arc
IsArc(value, n) ==
    /\ 360000 % value.den = 0
    /\ value.num * (360000 \div value.den) = n

\* the two strings of the specification
DecimalExample ==
    <<"4", ".", "2", "5", "deg", "S", ",", " ",
      "7", "9", ".", "2", "3", "deg", "W">>
DmsExample ==
    <<"8", "deg", "0", "1", "7", "min", "0", "3", "sec", "S", " ",
      "1", "1", "5", "deg", "0", "3", "5", "min", "0", "2", "1", "sec", "E">>

\* C19: for a string of either family parse_coordinates returns decimal
\* degrees with the sign of the cardinal: each component has the magnitude
\* degrees + minutes/60 + seconds/3600 of its token, the latitude is
\* negative exactly when its cardinal is S and the longitude exactly when
\* its cardinal is W.  "4.25degS, 79.23degW" gives (-4.25, -79.23), and
\* "8deg017min03secS 115deg035min021secE" a latitude between -9 and -8 and
\* a longitude between 115 and 116.
C19_SignNormalisedDegrees ==
    CoordinatesParsed =>
        /\ (DecimalFamily \/ DmsFamily) =>
              /\ ~IsError(ret)
              /\ IsArc(ret.lat, IF LatToken.cardinal = <<"S">>
                                THEN -TokenMagnitude(LatToken)
                                ELSE TokenMagnitude(LatToken))
              /\ IsArc(ret.lon, IF LonToken.cardinal = <<"W">>
                                THEN -TokenMagnitude(LonToken)
                                ELSE TokenMagnitude(LonToken))
              /\ ret.lat.num < 0 <=> LatToken.cardinal = <<"S">>
              /\ ret.lon.num < 0 <=> LonToken.cardinal = <<"W">>
        /\ CoordStr = DecimalExample =>
              /\ ret.lat = [num |-> -17, den |-> 4]
              /\ ret.lon = [num |-> -7923, den |-> 100]
        /\ CoordStr = DmsExample =>
              /\ -9 * ret.lat.den < ret.lat.num
              /\ ret.lat.num < -8 * ret.lat.den
              /\ 115 * ret.lon.den < ret.lon.num
              /\ ret.lon.num < 116 * ret.lon.den

\* C19 witness: the string in degrees, minutes and seconds of the
\* specification is parsed to 8deg 17min 3sec south, 115deg 35min 21sec east
C19_Witness ==
    /\ CoordinatesParsed
    /\ CoordStr = DmsExample
    /\ ~IsError(ret)
    /\ IsArc(ret.lat, -(8 * 360000 + 17 * 6000 + 3 * 100))
    /\ IsArc(ret.lon, 115 * 360000 + 35 * 6000 + 21 * 100)

\* the characters a to b of str are all of class
AllIn(str, a, b, class) == \A k \in a..b : str[k] \in class

\* a cardinal follows position p of str, after spaces only
CardinalFollows(str, p, cardinals) ==
    \E q \in (p + 1)..Len(str) :
        AllIn(str, p + 1, q - 1, {" "}) /\ str[q] \in cardinals

\* some part of str is a token degrees[(deg minutes seconds)] cardinal
HasToken(str, cardinals) ==
    \E i \in 1..Len(str) : \E end1 \in i..Len(str) :
        /\ AllIn(str, i, end1, Digit \cup {"."})
        /\ \/ CardinalFollows(str, end1, cardinals)
           \/ /\ end1 + 2 <= Len(str)
              /\ str[end1 + 1] = "deg"
              /\ \E end2 \in (end1 + 2)..Len(str) :
                    /\ AllIn(str, end1 + 2, end2, Digit)
                    /\ \E at3 \in (end2 + 1)..Len(str) :
                          /\ AllIn(str, end2 + 1, at3 - 1, {" "})
                          /\ \E end3 \in at3..Len(str) :
                                /\ AllIn(str, at3, end3, Digit)
                                /\ CardinalFollows(str, end3, cardinals)

\* the string matches the pair of token patterns, once its second marks are
\* dropped and its minute marks made spaces
MatchesTokenPair(str) ==
    LET marked == [i \in 1..Len(SelectSeq(str, LAMBDA c : c # "sec")) |->
                     IF SelectSeq(str, LAMBDA c : c # "sec")[i] = "min"
                     THEN " "
                     ELSE SelectSeq(str, LAMBDA c : c # "sec")[i]]
    IN  HasToken(marked, {"S", "N"}) /\ HasToken(marked, {"E", "W"})

\* a decimal number with an optional sign and an optional cardinal after it
IsDecimalPart(part, cardinals) ==
    LET bare     == IF part # <<>> /\ part[Len(part)] \in cardinals
                    THEN SubSeq(part, 1, Len(part) - 1) ELSE part
        unsigned == IF bare # <<>> /\ bare[1] \in {"-", "+"}
                    THEN Tail(bare) ELSE bare
    IN  IsNumeral(unsigned)

\* the string is a strict decimal "lat, lon": but for degree signs, marks
\* and spaces, two decimal numbers with one comma between them, each with
\* or without its cardinal
MatchesDecimalSplit(str) ==
    LET bare   == SelectSeq(str, LAMBDA c : c \notin {"deg", "min", "sec", " "})
        commas == { i \in 1..Len(bare) : bare[i] = "," }
    IN  /\ Cardinality(commas) = 1
        /\ \E i \in commas :
              /\ IsDecimalPart(SubSeq(bare, 1, i - 1), {"N", "S"})
              /\ IsDecimalPart(SubSeq(bare, i + 1, Len(bare)), {"E", "W"})

\* C20: parse_coordinates never returns a zero or a default in silence: for
\* every string that matches neither the pair of cardinal token patterns nor
\* the strict decimal split "lat, lon" it raises the ValueError and
\* returns no coordinate.
C20_UnparsableRaises ==
    (/\ CoordinatesParsed
     /\ ~MatchesTokenPair(CoordStr)
     /\ ~MatchesDecimalSplit(CoordStr))
        => ret = CoordinateError

\* C20 witness: decimal degrees with degree signs and no comma between
\* them match neither pattern, and the call raises
C20_Witness ==
    /\ CoordinatesParsed
    /\ DecimalToken(LatToken, {"N", "S"})
    /\ DecimalToken(LonToken, {"E", "W"})
    /\ Separator = <<" ">>
    /\ ~MatchesTokenPair(CoordStr)
    /\ ~MatchesDecimalSplit(CoordStr)
    /\ ret = CoordinateError

----------------------------------------------------------------------------
(* Properties of the world map *)

\* the caller holds a world map made for the location data of the call
WorldMapGenerated == op \in {"generate_world_map_svg", "_generate_world_map_content"}

\* the location data of the call carries a coordinate string that
\* parse_coordinates rejects
CoordinatesRejected ==
    /\ "coordinates" \in DOMAIN args[1]
    /\ IsError(parse_coordinates(args[1].coordinates))

\* the call returned a map whose marker is drawn for the default (0, 0)
MarkerAtDefault ==
    /\ ~IsError(ret)
    /\ ret.marker.lat = Dec(0, 0) /\ ret.marker.lon = Dec(0, 0)
    /\ ret.marker.at = project(projection, Dec(0, 0), Dec(0, 0))

\* C21: a coordinate string that parse_coordinates rejects is fatal for the
\* location rendering of the month: neither generate_world_map_svg nor the
\* world map content of generate_month_data is a map with a marker at the
\* default coordinate (0, 0).
C21_UnparsableIsFatal ==
    (WorldMapGenerated /\ CoordinatesRejected) => ~MarkerAtDefault

----------------------------------------------------------------------------
(* Properties of the projection *)

\* the caller holds the result of project(lat, lng)
Projected == op = "project"

\* the caller holds the result of _robinson_project(lng, lat)
RobinsonProjected == op = "_robinson_project"

\* a and b differ by at most one
WithinOne(a, b) == ~FLess(Dec(1, 0), FAbs(FSub(a, b)))

\* the reference points of the calibration, as (lat, lng)
Dublin == <<Dec(5334, 2), Dec(-627, 2)>>
Tasmania == <<Dec(-4202, 2), Dec(14653, 2)>>

\* C22: the calibration divides by no zero: the raw x-range and the raw
\* y-range of the two reference points are not zero and the projection is
\* constructed; and project maps the reference points onto their targets:
\* Dublin (53.34, -6.27) to within one pixel of (0.53 * 1800, 0.18 * 857) =
\* (954, 154.26), Tasmania (-42.02, 146.53) to within one pixel of
\* (0.97 * 1800, 0.89 * 857) = (1746, 762.73).
C22_ReferencePointsOnTargets ==
    /\ ~IsError(projection)
    /\ (Projected \/ RobinsonProjected) =>
          /\ raw_x_range(_robinson_project(projection, Dublin[2], Dublin[1]), _robinson_project(projection, Tasmania[2], Tasmania[1])) # Dec(0, 0)
          /\ raw_y_range(_robinson_project(projection, Dublin[2], Dublin[1]), _robinson_project(projection, Tasmania[2], Tasmania[1])) # Dec(0, 0)
    /\ (Projected /\ args = Dublin) =>
          /\ WithinOne(ret.x, Dec(954, 0))
          /\ WithinOne(ret.y, Dec(15426, 2))
    /\ (Projected /\ args = Tasmania) =>
          /\ WithinOne(ret.x, Dec(1746, 0))
          /\ WithinOne(ret.y, Dec(76273, 2))

\* C22 witness: project has been called for the Tasmanian reference point
\* and has returned a point within a pixel of (1746, 762.73)
C22_Witness ==
    /\ Projected
    /\ args = Tasmania
    /\ WithinOne(ret.x, Dec(1746, 0))
    /\ WithinOne(ret.y, Dec(76273, 2))

\* the latitude magnitude of the _robinson_project call
LatAbs == FAbs(args[2])

\* the latitude is within the contract of the projection
InContract == ~FLess(Dec(90, 0), LatAbs)

\* the coefficient _robinson_project interpolates from table for lat_abs
Coefficient(table, lat_abs) == Interpolated(table, Band(projection, lat_abs))

\* the latitude magnitudes explored that are no more than 5 degrees below b
JustBelow(b) ==
    { a \in { Dec(n, 2) : n \in LatitudeHundredths } :
        ~FLess(b, a) /\ ~FLess(Dec(5, 0), FSub(b, a)) }

\* C23: within a hemisphere the y-scale coefficient is monotonic in the
\* latitude magnitude: the coefficient interpolated for |lat| = b <= 90,
\* which is the magnitude of the y that _robinson_project returns, is no less
\* than the coefficient interpolated for any explored magnitude a <= b of
\* the same or the previous 5-degree stretch (across the band edges too);
\* by transitivity the same holds for every explored a <= b.
C23_MonotonicInLatitude ==
    (RobinsonProjected /\ InContract) =>
        /\ FAbs(ret.y) = Coefficient(projection.BB, LatAbs)
        /\ \A a \in JustBelow(LatAbs) :
              ~FLess(FAbs(ret.y), Coefficient(projection.BB, a))

\* C23 witness: a call just above a band edge, whose coefficient is more
\* than the table entry of the edge
C23_Witness ==
    /\ RobinsonProjected
    /\ LatAbs = Dec(4501, 2)
    /\ FLess(projection.BB[10], FAbs(ret.y))
    /\ FLess(Coefficient(projection.BB, Dec(4499, 2)), projection.BB[10])

\* the latitude magnitude of the call in hundredths of a degree
LatHundredths == int(FMul(LatAbs, Dec(100, 0)))

\* C24: for every |lat| in [0, 90] _robinson_project selects the band with
\* low = 5 * floor(|lat| / 5) and the table indices low / 5 and
\* min(low / 5 + 1, 18), both within 0..18; latitude 0 takes the band with
\* low = 0; a |lat| that is a multiple of 5 yields exactly the table
\* entries AA[|lat| / 5] and BB[|lat| / 5], and |lat| = 90 yields AA[18] and
\* BB[18] (the tables are indexed from 1 here).
C24_BandSelection ==
    (RobinsonProjected /\ InContract) =>
        /\ Band(projection, LatAbs).low = Dec(5 * (LatHundredths \div 500), 0)
        /\ Band(projection, LatAbs).low_index = LatHundredths \div 500
        /\ Band(projection, LatAbs).high_index
              = IF LatHundredths \div 500 + 1 < 18
                THEN LatHundredths \div 500 + 1 ELSE 18
        /\ Band(projection, LatAbs).low_index \in 0..18
        /\ Band(projection, LatAbs).high_index \in 0..18
        /\ LatHundredths % 500 = 0 =>
              /\ Coefficient(projection.AA, LatAbs) = AA[LatHundredths \div 500 + 1]
              /\ Coefficient(projection.BB, LatAbs) = BB[LatHundredths \div 500 + 1]
              /\ FAbs(ret.y) = BB[LatHundredths \div 500 + 1]

\* C24 witness: a call with |lat| = 90, which returns BB[18] as the
\* magnitude of y
C24_Witness ==
    /\ RobinsonProjected
    /\ LatAbs = Dec(90, 0)
    /\ Band(projection, LatAbs).low_index = 18
    /\ Band(projection, LatAbs).high_index = 18
    /\ FAbs(ret.y) = Dec(13523, 4)

\* C25: a latitude beyond 90 degrees is not clamped in silence: for
\* |lat| > 90, project does not return the position of the latitude of 90
\* degrees of the same hemisphere.
C25_BeyondNinetyNotClamped ==
    (Projected /\ FLess(Dec(90, 0), FAbs(args[1]))) =>
        ret # project(projection, FMul(Sign(args[1]), Dec(90, 0)), args[2])

----------------------------------------------------------------------------
(* Properties of the week start date *)

\* the number of weeks of an ISO year: December 28th lies in its last week
WeeksOfIsoYear(year) == isocalendar(_ymd2ord(year, 12, 28))[2]

\* C28: get_week_start_date(year, week) returns a Monday for every week in
\* 1..53; the ISO week of that Monday is (year, week) whenever the ISO year
\* has at least that many weeks; for week 53 of an ISO year of 52 weeks no
\* error is raised and the Monday returned lies in ISO week (year + 1, 1).
C28_WeekStartIsThatMonday ==
    op = "get_week_start_date" =>
        LET year == args[1]
            week == args[2]
        IN  /\ ret \in Ordinals
            /\ weekday(ret) = 0
            /\ week <= WeeksOfIsoYear(year) => get_iso_week(ret) = <<year, week>>
            /\ week > WeeksOfIsoYear(year) =>
                  /\ week = 53
                  /\ WeeksOfIsoYear(year) = 52
                  /\ get_iso_week(ret) = <<year + 1, 1>>

\* C28 witness: week 53 was asked for 2025, an ISO year of 52 weeks, and the
\* Monday returned is 2025-12-29, the first day of week 1 of 2026
C28_Witness ==
    /\ op = "get_week_start_date"
    /\ args = <<2025, 53>>
    /\ WeeksOfIsoYear(2025) = 52
    /\ ret = _ymd2ord(2025, 12, 29)
    /\ get_iso_week(ret) = <<2026, 1>>

----------------------------------------------------------------------------
(* Properties of a malformed month *)

\* the grid held by the caller after a single generate_calendar_grid call
\* on a calculator that has served no other call, for every valid month
SingleCallGrid ==
    [year \in Years, month \in 1..12 |-> generate_calendar_grid(year, month)]

----------------------------------------------------------------------------
(* Properties of the two manifest loaders *)

\* the data lines of the manifest on disk that _load_photo_information
\* lists under month_key, in file order
ListedLines(month_key) ==
    SelectSeq(SubSeq(manifest_file.lines, 2, Len(manifest_file.lines)),
              LAMBDA parts : HasFilename(parts) /\ parts[1] = month_key)

\* the observation id written on a line, <<>> where the line has none
ObservationIdOf(parts) == IF Len(parts) >= 3 THEN parts[3] ELSE <<>>

\* the day number a date key ends with
DayOfKey(date_key) ==
    CHOOSE d \in 1..99 : Pad2(d) = date_key[3]

\* C27: the photo and the observation id of a day come from the same
\* manifest line: the observation id filed under YYYY-MM-d is the
\* observation id of the d-th line of month YYYYMM, the line whose filename
\* _load_photo_information places at index d - 1, also when earlier lines of
\* the month are placeholders or have the observation id "0" or none.
C27_ObservationOfTheSameLine ==
    (op = "_load_photo_observations_from_info_file" /\ manifest_file.exists) =>
        \A date_key \in DOMAIN ret :
            LET month_key == date_key[1] \o date_key[2]
                d         == DayOfKey(date_key)
                listed    == ListedLines(month_key)
                photos    == _load_photo_information(manifest_file)[month_key]
            IN  /\ d <= Len(listed)
                /\ photos[d] = listed[d][2]
                /\ ret[date_key] = ObservationIdOf(listed[d])

----------------------------------------------------------------------------
(* Properties of the manifest snapshot *)

\* the caller holds the result of one of the two lookup functions
LookedUp == op \in {"find_photo_for_date", "find_photo_for_date_with_key"}

\* the answer of the lookup held by the caller, computed from photo_info
AnswerFrom(photo_info) ==
    IF op = "find_photo_for_date"
    THEN find_photo_for_date(photo_info, photo_files, args[1], args[2],
                             args[3], args[4])
    ELSE find_photo_for_date_with_key(photo_info, photo_files, args[1],
                                      args[2], args[3], args[4], args[5])

\* C29 (state part): a lookup leaves the manifest stored, and its answer is
\* the answer the stored manifest gives.
AnswersFromSnapshot ==
    LookedUp => (_photo_info.set /\ ret = AnswerFrom(_photo_info.value))

\* C29 (step part): the first lookup stores the manifest as the file lists
\* it at that moment; once stored, no step reloads or modifies it.
SnapshotKept ==
    /\ _photo_info.set => _photo_info' = _photo_info
    /\ (~_photo_info.set /\ _photo_info'.set) =>
          /\ op' \in {"find_photo_for_date", "find_photo_for_date_with_key"}
          /\ _photo_info'.value = _load_photo_information(manifest_file)

\* C29: a CalendarGenerator loads the photo manifest at most once: the first
\* find_photo_for_date or find_photo_for_date_with_key call stores it in
\* _photo_info, no later call reloads or modifies it, and every later
\* lookup, for any month and through either function, answers from that
\* first snapshot even if the manifest file has changed in between.
C29_ManifestLoadedOnce ==
    [][SnapshotKept /\ AnswersFromSnapshot']_vars

\* C29 witness: the manifest was stored, the file has changed since and now
\* lists other photos, and a lookup through find_photo_for_date_with_key
\* returned the photo of the stored manifest, which the file no longer gives
C29_Witness ==
    /\ op = "find_photo_for_date_with_key"
    /\ _photo_info.set
    /\ manifest_file.exists
    /\ _load_photo_information(manifest_file) # _photo_info.value
    /\ ret # None
    /\ ret = AnswerFrom(_photo_info.value)
    /\ ret # AnswerFrom(_load_photo_information(manifest_file))

----------------------------------------------------------------------------
(* Properties of a February listed with 28 photos *)

\* a perpetual February of a source year that is not a leap year, whose
\* list in the manifest has exactly 28 entries
ShortFebruaryCase ==
    /\ LeapDayCase
    /\ Len(ManifestEntries(MonthKey(SourceYear, 2))) = 28

\* the call failed on missing photos and reports day 29 and no other day
OnlyLeapDayReported ==
    /\ IsError(ret)
    /\ ret.error = "FileNotFoundError"
    /\ ret.what = "missing photos"
    /\ Len(ret.missing) = 1
    /\ ret.missing[1][2] = Pad2(2)
    /\ ret.missing[1][3] = Pad2(29)
    /\ "weeks" \notin DOMAIN ret

\* the lookups of the 28 listed photos all find a file
ListedPhotosFound ==
    \A day \in 1..28 :
        PerpetualLookupFinds(ManifestEntries(MonthKey(SourceYear, 2))[day])

\* C30 as stated: a perpetual February of a source year that is not a leap
\* year, listed with exactly 28 entries, always fails on missing photos and
\* reports exactly one missing day, day 29, returning no grid.
C30_ShortFebruaryReportsOneDay ==
    ShortFebruaryCase => OnlyLeapDayReported

\* C30, amended: such a build never returns a grid: it always fails on
\* missing photos and reports day 29; day 29 is the only day reported
\* exactly when the files of all 28 listed photos are found, and otherwise
\* the days of the photos not found are reported before it.
C30_ShortFebruaryFails ==
    ShortFebruaryCase =>
        /\ ~PerpetualReturned
        /\ LeapDayReported
        /\ ret.error = "FileNotFoundError"
        /\ ret.missing[Len(ret.missing)][3] = Pad2(29)
        /\ OnlyLeapDayReported <=> ListedPhotosFound
        /\ Len(ret.missing) =
              1 + Cardinality({ day \in 1..28 :
                    ~PerpetualLookupFinds(
                        ManifestEntries(MonthKey(SourceYear, 2))[day]) })

\* C30 witness: February of 2027 is listed with 28 photos, all on disk, and
\* the build failed reporting the one day 29
C30_Witness ==
    /\ ShortFebruaryCase
    /\ SourceYear = FirstYear + 3
    /\ ListedPhotosFound
    /\ OnlyLeapDayReported
    /\ Len(ret.missing) = 1

====
